---- MODULE Spec2Model ----
(***************************************************************************)
(* Model of the meek collections: MeekSet (set.ts), MeekMap (map.ts) and   *)
(* MeekValueMap (valuemap.ts).  One container is constructed; caller code  *)
(* inserts, deletes and clears, drops its references to objects, and the   *)
(* host collects dropped objects and later delivers the finalization       *)
(* callbacks of the registrations that are still attached.                 *)
(***************************************************************************)
EXTENDS Integers, Sequences, FiniteSets, TLC

\* ------------------------------------------------------------------ bounds
NumObjs == 2
NumKeys == 2
NumVals == 2
MaxRefs == 3

Objs == 1..NumObjs        \* objects that can be held weakly
Keys == 1..NumKeys        \* primitive keys of a MeekValueMap
Vals == 1..NumVals        \* primitive values of a MeekMap
None == 0                 \* undefined

VARIABLES
    cls,        \* which class was constructed
    heap,       \* object -> "held" (caller has a reference), "dropped", "collected"
    weakrefs,   \* the WeakRef objects created so far: ref id -> its target
    pri,        \* the private data of the instance (Pri)
    expect,     \* what the caller last stored (the reference Map/Set of the tests)
    clob,       \* MeekValueMap keys overwritten while the old value was unreachable
    delivered,  \* the tokens whose finalization callback has been delivered
    iterable,   \* the iterable the constructor was called with
    it,         \* one iterator over the instance: its state and cursor
    native,     \* a native Map given the same calls, with an iterator of its own
    thrown,     \* whether the last call of add, set, delete, clear or a set operation threw
    ret         \* what the latest call returned, when the caller still has it

vars == <<cls, heap, weakrefs, pri, expect, clob, delivered, iterable, it, native, thrown,
          ret>>

\* ------------------------------------------------------- host: sequences
SeqHas(s, x) == \E i \in DOMAIN s : s[i] = x

\* Set.prototype.add on an insertion-ordered Set
SeqAdd(s, x) == IF SeqHas(s, x) THEN s ELSE Append(s, x)

\* Set.prototype.delete on an insertion-ordered Set
SeqDelete(s, x) == SelectSeq(s, LAMBDA e : e # x)

\* Map.prototype.get on an insertion-ordered Map of [key, ref] entries
KwvGet(kwv, key) ==
    IF \E i \in DOMAIN kwv : kwv[i].key = key
    THEN kwv[CHOOSE i \in DOMAIN kwv : kwv[i].key = key].ref
    ELSE None

\* Map.prototype.set: an existing key keeps its position
KwvSet(kwv, key, ref) ==
    IF \E i \in DOMAIN kwv : kwv[i].key = key
    THEN [i \in DOMAIN kwv |->
            IF kwv[i].key = key THEN [key |-> key, ref |-> ref] ELSE kwv[i]]
    ELSE Append(kwv, [key |-> key, ref |-> ref])

\* Map.prototype.delete
KwvDelete(kwv, key) == SelectSeq(kwv, LAMBDA e : e.key # key)

\* ------------------------------------------- host: WeakRef and the registry
\* new WeakRef(target): the identity of the next WeakRef object
NewWeakRef == Len(weakrefs) + 1

\* WeakRef.prototype.deref
Deref(ref) ==
    IF heap[weakrefs[ref]] = "collected" THEN None ELSE weakrefs[ref]

\* FinalizationRegistry.prototype.register(target, held, token)
Register(fr, target, held, token) ==
    fr \cup {[target |-> target, held |-> held, token |-> token]}

\* FinalizationRegistry.prototype.unregister(token)
Unregister(fr, token) == {c \in fr : c.token # token}

\* new WeakMap()
EmptyWeakMap == [o \in Objs |-> None]

\* ------------------------------------------------------------- MeekSet
MeekSet_new == [fr |-> {}, vwv |-> EmptyWeakMap, wv |-> <<>>]

MeekSet_add(p, value) ==
    IF p.vwv[value] = None
    THEN [p EXCEPT !.fr = Register(@, value, NewWeakRef, value),
                   !.vwv[value] = NewWeakRef,
                   !.wv = SeqAdd(@, NewWeakRef)]
    ELSE p

\* clear() that replaces the index and leaves the tokens on the surface
MeekSet_clear_keepsSurface(p) == [p EXCEPT !.vwv = EmptyWeakMap]

\* clear() that empties the surface and keeps the index
MeekSet_clear_keepsIndex(p) == [p EXCEPT !.wv = <<>>]

MeekSet_clear(p) == [p EXCEPT !.wv = <<>>, !.vwv = EmptyWeakMap]

\* delete() that leaves the token on the surface
MeekSet_delete_keepsToken(p, value) ==
    IF p.vwv[value] # None
    THEN [p EXCEPT !.fr = Unregister(@, value), !.vwv[value] = None]
    ELSE p

MeekSet_delete(p, value) ==
    IF p.vwv[value] # None
    THEN [p EXCEPT !.fr = Unregister(@, value),
                   !.vwv[value] = None,
                   !.wv = SeqDelete(@, p.vwv[value])]
    ELSE p

MeekSet_deleteResult(p, value) ==
    IF p.vwv[value] # None THEN SeqHas(p.wv, p.vwv[value]) ELSE FALSE

MeekSet_has(p, value) == p.vwv[value] # None

MeekSet_size(p) == Len(p.wv)

\* a callback that removes the token of the same referent instead of the
\* token it was registered with
MeekSet_cleanup_byReferent(p, held) ==
    [p EXCEPT !.wv = SelectSeq(@, LAMBDA e : weakrefs[e] # weakrefs[held])]

\* a callback bound to wv.clear instead of wv.delete
MeekSet_cleanup_clears(p, held) == [p EXCEPT !.wv = <<>>]

\* a callback that lost its receiver (wv.delete without bind) removes nothing
MeekSet_cleanup_unbound(p, held) == p

\* the finalization callback: wv.delete.bind(wv)
MeekSet_cleanup(p, held) == [p EXCEPT !.wv = SeqDelete(@, held)]

\* for (const ref of wv) { value = ref.deref(); if (value) yield value }
RECURSIVE MeekSet_values(_)
MeekSet_values(wv) ==
    IF wv = <<>> THEN <<>>
    ELSE (IF Deref(Head(wv)) # None THEN <<Deref(Head(wv))>> ELSE <<>>)
         \o MeekSet_values(Tail(wv))

\* ------------------------------------------------------------- MeekMap
MeekMap_new == [fr |-> {}, kwk |-> EmptyWeakMap, wk |-> <<>>, kv |-> EmptyWeakMap]

\* clear() that replaces the WeakMaps and leaves the tokens on the surface
MeekMap_clear_keepsSurface(p) == [p EXCEPT !.kwk = EmptyWeakMap, !.kv = EmptyWeakMap]

MeekMap_clear(p) ==
    [p EXCEPT !.wk = <<>>, !.kwk = EmptyWeakMap, !.kv = EmptyWeakMap]

\* delete() that leaves the value in kv
MeekMap_delete_keepsValue(p, key) ==
    IF p.kwk[key] # None
    THEN [p EXCEPT !.fr = Unregister(@, key),
                   !.kwk[key] = None,
                   !.wk = SeqDelete(@, p.kwk[key])]
    ELSE p

\* delete() that forgets to unregister
MeekMap_delete_keepsReg(p, key) ==
    IF p.kwk[key] # None
    THEN [p EXCEPT !.kwk[key] = None,
                   !.kv[key] = None,
                   !.wk = SeqDelete(@, p.kwk[key])]
    ELSE p

MeekMap_delete(p, key) ==
    IF p.kwk[key] # None
    THEN [p EXCEPT !.fr = Unregister(@, key),
                   !.kwk[key] = None,
                   !.kv[key] = None,
                   !.wk = SeqDelete(@, p.kwk[key])]
    ELSE p

MeekMap_deleteResult(p, key) ==
    IF p.kwk[key] # None THEN SeqHas(p.wk, p.kwk[key]) ELSE FALSE

MeekMap_get(p, key) ==
    IF p.kwk[key] # None /\ Deref(p.kwk[key]) # None
    THEN p.kv[Deref(p.kwk[key])]
    ELSE None

MeekMap_has(p, key) ==
    IF p.kwk[key] = None THEN FALSE ELSE Deref(p.kwk[key]) # None

\* set() that puts the token of a new key before the ones already there
MeekMap_set_front(p, key, value) ==
    IF p.kwk[key] = None
    THEN [p EXCEPT !.fr = Register(@, key, NewWeakRef, key),
                   !.kwk[key] = NewWeakRef,
                   !.wk = <<NewWeakRef>> \o @,
                   !.kv[key] = value]
    ELSE [p EXCEPT !.kv[key] = value]

\* set() that takes the token of a key it already has out and adds it again
MeekMap_set_moves(p, key, value) ==
    LET ref == IF p.kwk[key] = None THEN NewWeakRef ELSE p.kwk[key]
        q   == IF p.kwk[key] = None
               THEN [p EXCEPT !.fr = Register(@, key, ref, key),
                              !.kwk[key] = ref]
               ELSE p
    IN  [q EXCEPT !.wk = Append(SeqDelete(@, ref), ref), !.kv[key] = value]

MeekMap_set(p, key, value) ==
    LET ref == IF p.kwk[key] = None THEN NewWeakRef ELSE p.kwk[key]
        q   == IF p.kwk[key] = None
               THEN [p EXCEPT !.fr = Register(@, key, ref, key),
                              !.kwk[key] = ref]
               ELSE p
    IN  [q EXCEPT !.wk = SeqAdd(@, ref), !.kv[key] = value]

MeekMap_size(p) == Len(p.wk)

\* a callback that removes the token of the same key object instead of the
\* token it was registered with
MeekMap_cleanup_byReferent(p, held) ==
    [p EXCEPT !.wk = SelectSeq(@, LAMBDA e : weakrefs[e] # weakrefs[held])]

\* the finalization callback: wk.delete.bind(wk)
MeekMap_cleanup(p, held) == [p EXCEPT !.wk = SeqDelete(@, held)]

\* for (const ref of wk) { key = ref.deref(); if (key) yield [key, kv.get(key)] }
RECURSIVE MeekMap_entries(_, _)
MeekMap_entries(wk, kv) ==
    IF wk = <<>> THEN <<>>
    ELSE (IF Deref(Head(wk)) # None
          THEN << <<Deref(Head(wk)), kv[Deref(Head(wk))]>> >>
          ELSE <<>>)
         \o MeekMap_entries(Tail(wk), kv)

\* -------------------------------------------------------- MeekValueMap
MeekValueMap_new == [fr |-> {}, kwv |-> <<>>]

\* a loop body of clear() that only deletes the key
MeekValueMap_clearStep_keepsReg(p, e) == [p EXCEPT !.kwv = KwvDelete(@, e.key)]

\* one pass of the loop body of clear() for the entry [key, ref]
MeekValueMap_clearStep(p, e) ==
    [p EXCEPT !.fr = Unregister(@, e.ref), !.kwv = KwvDelete(@, e.key)]

RECURSIVE MeekValueMap_clearLoop(_, _)
MeekValueMap_clearLoop(p, todo) ==
    IF todo = <<>> THEN p
    ELSE MeekValueMap_clearLoop(MeekValueMap_clearStep(p, Head(todo)), Tail(todo))

MeekValueMap_clear(p) == MeekValueMap_clearLoop(p, p.kwv)

\* delete() that unregisters every registration of the value of the entry
MeekValueMap_delete_byValue(p, key) ==
    IF KwvGet(p.kwv, key) # None
    THEN [p EXCEPT !.fr = {c \in @ : c.target # weakrefs[KwvGet(p.kwv, key)]},
                   !.kwv = KwvDelete(@, key)]
    ELSE p

\* delete() that only removes an entry whose value is still alive
MeekValueMap_delete_liveOnly(p, key) ==
    IF KwvGet(p.kwv, key) # None /\ Deref(KwvGet(p.kwv, key)) # None
    THEN [p EXCEPT !.fr = Unregister(@, KwvGet(p.kwv, key)),
                   !.kwv = KwvDelete(@, key)]
    ELSE p

MeekValueMap_delete(p, key) ==
    IF KwvGet(p.kwv, key) # None
    THEN [p EXCEPT !.fr = Unregister(@, KwvGet(p.kwv, key)),
                   !.kwv = KwvDelete(@, key)]
    ELSE p

\* delete() that reports whether the value it removed was still alive
MeekValueMap_deleteResult_liveOnly(p, key) ==
    KwvGet(p.kwv, key) # None /\ Deref(KwvGet(p.kwv, key)) # None

MeekValueMap_deleteResult(p, key) == KwvGet(p.kwv, key) # None

MeekValueMap_get(p, key) ==
    IF KwvGet(p.kwv, key) = None THEN None ELSE Deref(KwvGet(p.kwv, key))

\* has() that trusts the index and does not dereference the token
MeekValueMap_has_noDeref(p, key) == KwvGet(p.kwv, key) # None

MeekValueMap_has(p, key) ==
    IF KwvGet(p.kwv, key) = None THEN FALSE ELSE Deref(KwvGet(p.kwv, key)) # None

\* set() that forgets to unregister the token it replaces
MeekValueMap_set_keepsOld(p, key, value) ==
    [p EXCEPT !.fr = Register(@, value, key, NewWeakRef),
              !.kwv = KwvSet(@, key, NewWeakRef)]

\* set() that deletes the entry it replaces, so that the key is inserted anew
MeekValueMap_set_reinserts(p, key, value) ==
    LET ref == NewWeakRef
        old == KwvGet(p.kwv, key)
        fr1 == IF old # None THEN Unregister(p.fr, old) ELSE p.fr
    IN  [p EXCEPT !.fr = Register(fr1, value, key, ref),
                  !.kwv = KwvSet(KwvDelete(@, key), key, ref)]

MeekValueMap_set(p, key, value) ==
    LET ref == NewWeakRef
        old == KwvGet(p.kwv, key)
        fr1 == IF old # None THEN Unregister(p.fr, old) ELSE p.fr
    IN  [p EXCEPT !.fr = Register(fr1, value, key, ref),
                  !.kwv = KwvSet(@, key, ref)]

\* a size that counts only the entries whose value is alive
MeekValueMap_size_liveOnly(p) ==
    Cardinality({i \in DOMAIN p.kwv : Deref(p.kwv[i].ref) # None})

MeekValueMap_size(p) == Len(p.kwv)

\* a callback bound to kwv.clear instead of kwv.delete
MeekValueMap_cleanup_clears(p, held) == [p EXCEPT !.kwv = <<>>]

\* the finalization callback: kwv.delete.bind(kwv)
MeekValueMap_cleanup(p, held) == [p EXCEPT !.kwv = KwvDelete(@, held)]

\* an iteration that yields every entry without testing the dereferenced value
MeekValueMap_entries_noFilter(kwv) ==
    [i \in DOMAIN kwv |-> <<kwv[i].key, Deref(kwv[i].ref)>>]

\* for (const [key, ref] of kwv) { value = ref.deref(); if (value) yield [key, value] }
RECURSIVE MeekValueMap_entries(_)
MeekValueMap_entries(kwv) ==
    IF kwv = <<>> THEN <<>>
    ELSE (IF Deref(Head(kwv).ref) # None
          THEN << <<Head(kwv).key, Deref(Head(kwv).ref)>> >>
          ELSE <<>>)
         \o MeekValueMap_entries(Tail(kwv))

\* ---------------------------------------------------------- the instance
Classes == {"MeekSet", "MeekMap", "MeekValueMap"}

\* the tokens on the enumeration surface, in iteration order
Surface ==
    CASE cls = "MeekSet" -> pri.wv
      [] cls = "MeekMap" -> pri.wk
      [] OTHER -> [i \in DOMAIN pri.kwv |-> pri.kwv[i].ref]

Size ==
    CASE cls = "MeekSet" -> MeekSet_size(pri)
      [] cls = "MeekMap" -> MeekMap_size(pri)
      [] OTHER -> MeekValueMap_size(pri)

\* the token a registration was created for
CellRef(c) == IF cls = "MeekValueMap" THEN c.token ELSE c.held

\* a registration whose target was collected and whose callback is not yet delivered
Pending(c) == heap[c.target] = "collected"

\* the callback the registry of this instance was created with
Cleanup(p, held) ==
    CASE cls = "MeekSet" -> MeekSet_cleanup(p, held)
      [] cls = "MeekMap" -> MeekMap_cleanup(p, held)
      [] OTHER -> MeekValueMap_cleanup(p, held)

CanAlloc == Len(weakrefs) < MaxRefs

\* the caller has passed object o to the container before
Used(o) == \E r \in DOMAIN weakrefs : weakrefs[r] = o

\* objects are interchangeable: the caller creates them in order, so a new
\* object is the lowest one not used yet
InOrder(o) == \A q \in Objs : q < o => Used(q)

\* ------------------------------------------------------ host: iterators
\* the entries of the enumeration surface of p by identity, in order: the
\* tokens of the Set wv or wk, the keys of the Map kwv
Slots(p) ==
    CASE cls = "MeekSet" -> p.wv
      [] cls = "MeekMap" -> p.wk
      [] OTHER -> [i \in DOMAIN p.kwv |-> p.kwv[i].key]

\* the tokens of the enumeration surface of p, in order
Tokens(p) ==
    CASE cls = "MeekSet" -> p.wv
      [] cls = "MeekMap" -> p.wk
      [] OTHER -> [i \in DOMAIN p.kwv |-> p.kwv[i].ref]

\* no iterator was created; lost tells that a token was taken off the surface
\* while the iterator had not reached it
NoIterator == [state |-> "none", pos |-> 0, lost |-> FALSE]

\* a Set or Map iterator while a call changes the collection: old and new are
\* its entries by identity before and after, oldT and newT their tokens. The
\* cursor stays behind the visited entries that are still there (a delete
\* before the cursor moves it back, clear() puts it at the start, an entry
\* added goes after it)
CursorAdjust(i, old, new, oldT, newT) ==
    IF i.state # "suspended" THEN i
    ELSE [i EXCEPT
            !.pos = Cardinality({j \in 1..i.pos : SeqHas(new, old[j])}),
            !.lost = @ \/ \E n \in DOMAIN oldT : n > i.pos /\ ~SeqHas(newT, oldT[n])]

\* the iterator over the surface while a call changes the private data p into q
IterAdjust(i, p, q) == CursorAdjust(i, Slots(p), Slots(q), Tokens(p), Tokens(q))

\* new Map(), with no iterator
NativeNew == [map |-> <<>>, it |-> NoIterator]

\* the latest step was not a set operation of MeekSet
NoReturn == [op |-> "none"]

Init ==
    /\ cls \in Classes
    /\ heap = [o \in Objs |-> "held"]
    /\ weakrefs = <<>>
    /\ pri = CASE cls = "MeekSet" -> MeekSet_new
                [] cls = "MeekMap" -> MeekMap_new
                [] OTHER -> MeekValueMap_new
    /\ expect = IF cls = "MeekValueMap" THEN [k \in Keys |-> None]
                                         ELSE [o \in Objs |-> None]
    /\ clob = {}
    /\ delivered = {}
    /\ iterable = <<>>
    /\ it = NoIterator
    /\ native = NativeNew
    /\ thrown = FALSE
    /\ ret = NoReturn

\* ------------------------------------------------------ caller: MeekSet
Add(value) ==
    /\ cls = "MeekSet"
    /\ heap[value] = "held"
    /\ InOrder(value)
    /\ pri.vwv[value] = None => CanAlloc
    /\ pri' = MeekSet_add(pri, value)
    /\ weakrefs' = IF pri.vwv[value] = None THEN Append(weakrefs, value) ELSE weakrefs
    /\ expect' = [expect EXCEPT ![value] = 1]
    /\ it' = IterAdjust(it, pri, pri')
    /\ thrown' = FALSE
    /\ ret' = NoReturn
    /\ UNCHANGED <<iterable, native, cls, heap, clob, delivered>>

SetDelete(value) ==
    /\ cls = "MeekSet"
    /\ heap[value] = "held"
    /\ pri' = MeekSet_delete(pri, value)
    /\ expect' = [expect EXCEPT ![value] = None]
    /\ it' = IterAdjust(it, pri, pri')
    /\ thrown' = FALSE
    /\ ret' = NoReturn
    /\ UNCHANGED <<iterable, native, cls, heap, weakrefs, clob, delivered>>

SetClear ==
    /\ cls = "MeekSet"
    /\ pri' = MeekSet_clear(pri)
    /\ expect' = [o \in Objs |-> None]
    /\ it' = IterAdjust(it, pri, pri')
    /\ thrown' = FALSE
    /\ ret' = NoReturn
    /\ UNCHANGED <<iterable, native, cls, heap, weakrefs, clob, delivered>>

\* ------------------------------------------------------ caller: MeekMap
MapSet(key, value) ==
    /\ cls = "MeekMap"
    /\ heap[key] = "held"
    /\ InOrder(key)
    /\ pri.kwk[key] = None => CanAlloc
    /\ pri' = MeekMap_set(pri, key, value)
    /\ weakrefs' = IF pri.kwk[key] = None THEN Append(weakrefs, key) ELSE weakrefs
    /\ expect' = [expect EXCEPT ![key] = value]
    /\ it' = IterAdjust(it, pri, pri')
    /\ thrown' = FALSE
    /\ ret' = NoReturn
    /\ UNCHANGED <<iterable, native, cls, heap, clob, delivered>>

MapDelete(key) ==
    /\ cls = "MeekMap"
    /\ heap[key] = "held"
    /\ pri' = MeekMap_delete(pri, key)
    /\ expect' = [expect EXCEPT ![key] = None]
    /\ it' = IterAdjust(it, pri, pri')
    /\ thrown' = FALSE
    /\ ret' = NoReturn
    /\ UNCHANGED <<iterable, native, cls, heap, weakrefs, clob, delivered>>

MapClear ==
    /\ cls = "MeekMap"
    /\ pri' = MeekMap_clear(pri)
    /\ expect' = [o \in Objs |-> None]
    /\ it' = IterAdjust(it, pri, pri')
    /\ thrown' = FALSE
    /\ ret' = NoReturn
    /\ UNCHANGED <<iterable, native, cls, heap, weakrefs, clob, delivered>>

\* ------------------------------------------------- caller: MeekValueMap
ValueMapSet(key, value) ==
    LET old == KwvGet(pri.kwv, key) IN
    /\ cls = "MeekValueMap"
    /\ heap[value] = "held"
    /\ InOrder(value)
    /\ CanAlloc
    /\ pri' = MeekValueMap_set(pri, key, value)
    /\ weakrefs' = Append(weakrefs, value)
    /\ expect' = [expect EXCEPT ![key] = value]
    /\ clob' = IF old # None /\ weakrefs[old] # value /\ heap[weakrefs[old]] # "held"
               THEN clob \cup {key}
               ELSE clob \ {key}
    /\ it' = IterAdjust(it, pri, pri')
    /\ thrown' = FALSE
    /\ ret' = NoReturn
    /\ UNCHANGED <<iterable, native, cls, heap, delivered>>

ValueMapDelete(key) ==
    /\ cls = "MeekValueMap"
    /\ pri' = MeekValueMap_delete(pri, key)
    /\ expect' = [expect EXCEPT ![key] = None]
    /\ clob' = clob \ {key}
    /\ it' = IterAdjust(it, pri, pri')
    /\ thrown' = FALSE
    /\ ret' = NoReturn
    /\ UNCHANGED <<iterable, native, cls, heap, weakrefs, delivered>>

ValueMapClear ==
    /\ cls = "MeekValueMap"
    /\ pri' = MeekValueMap_clear(pri)
    /\ expect' = [k \in Keys |-> None]
    /\ clob' = {}
    /\ it' = IterAdjust(it, pri, pri')
    /\ thrown' = FALSE
    /\ ret' = NoReturn
    /\ UNCHANGED <<iterable, native, cls, heap, weakrefs, delivered>>

\* ------------------------------------------------- caller and host: heap
\* the caller lets go of its last reference to an object
Drop(o) ==
    /\ heap[o] = "held"
    /\ Used(o)
    /\ heap' = [heap EXCEPT ![o] = "dropped"]
    /\ ret' = NoReturn
    /\ UNCHANGED <<iterable, it, native, thrown, cls, weakrefs, pri, expect, clob, delivered>>

\* the caller keeps what a read (get, iteration) dereferenced for it
Retain(o) ==
    /\ heap[o] = "dropped"
    /\ \E i \in DOMAIN Surface : Deref(Surface[i]) = o
    /\ heap' = [heap EXCEPT ![o] = "held"]
    /\ ret' = NoReturn
    /\ UNCHANGED <<iterable, it, native, thrown, cls, weakrefs, pri, expect, clob, delivered>>

\* the host reclaims an unreachable object: its WeakRefs go empty and the
\* WeakMap entries keyed by it are gone
Collect(o) ==
    /\ heap[o] = "dropped"
    /\ heap' = [heap EXCEPT ![o] = "collected"]
    /\ pri' = CASE cls = "MeekSet" -> [pri EXCEPT !.vwv[o] = None]
                 [] cls = "MeekMap" -> [pri EXCEPT !.kwk[o] = None, !.kv[o] = None]
                 [] OTHER -> pri
    /\ ret' = NoReturn
    /\ UNCHANGED <<iterable, it, native, thrown, cls, weakrefs, expect, clob, delivered>>

\* the host delivers the callback of one registration of a collected target
Deliver(c) ==
    /\ c \in pri.fr
    /\ Pending(c)
    /\ pri' = Cleanup([pri EXCEPT !.fr = @ \ {c}], c.held)
    /\ delivered' = delivered \cup {CellRef(c)}
    /\ it' = IterAdjust(it, pri, pri')
    /\ ret' = NoReturn
    /\ UNCHANGED <<iterable, native, thrown, cls, heap, weakrefs, expect, clob>>

\* ------------------------------------------------------ caller: iterator
\* the place on the surface of the next entry after pos whose referent is
\* alive, 0 when there is none
NextLive(pos) ==
    IF \E j \in (pos + 1)..Len(Surface) : Deref(Surface[j]) # None
    THEN CHOOSE j \in (pos + 1)..Len(Surface) :
            /\ Deref(Surface[j]) # None
            /\ \A n \in (pos + 1)..(j - 1) : Deref(Surface[n]) = None
    ELSE 0

\* the token of the entry the next step of the iterator yields, None when
\* the step finishes the iteration
IterToken == IF NextLive(it.pos) = 0 THEN None ELSE Surface[NextLive(it.pos)]

\* the iterator after its next step
IterStepped ==
    IF NextLive(it.pos) = 0
    THEN [state |-> "done", pos |-> 0, lost |-> FALSE]
    ELSE [it EXCEPT !.pos = NextLive(it.pos)]

\* [Symbol.iterator](): a generator that has not run yet
IterStart ==
    /\ it.state = "none"
    /\ it' = [state |-> "suspended", pos |-> 0, lost |-> FALSE]
    /\ ret' = NoReturn
    /\ UNCHANGED <<cls, heap, weakrefs, pri, expect, clob, delivered, iterable, native, thrown>>

\* next() of the generator: the for-of loop over the surface runs on, skipping
\* the tokens that dereference to nothing, up to the next yield or to its end
IterStep ==
    /\ it.state = "suspended"
    /\ it' = IterStepped
    /\ ret' = NoReturn
    /\ UNCHANGED <<cls, heap, weakrefs, pri, expect, clob, delivered, iterable, native, thrown>>

\* the keys of the container: members, key objects, or arbitrary keys
Dom == IF cls = "MeekValueMap" THEN Keys ELSE Objs

\* ---------------------------------------------------------- caller: reads
\* get() that removes the entry it finds dead (unregister, delete)
AfterGet_lazyDelete(p, x) ==
    IF cls = "MeekValueMap" /\ KwvGet(p.kwv, x) # None /\ Deref(KwvGet(p.kwv, x)) = None
    THEN [p EXCEPT !.fr = Unregister(@, KwvGet(p.kwv, x)), !.kwv = KwvDelete(@, x)]
    ELSE p

\* the private data after get(x): the index lookup and deref() assign nothing
AfterGet(p, x) == p

\* the private data after has(x): the index lookup and deref() assign nothing
AfterHas(p, x) == p

\* the private data after reading size: the size of the surface is returned
AfterSize(p) == p

\* get(x) of MeekMap or MeekValueMap is called
CallGet(x) ==
    /\ cls # "MeekSet"
    /\ pri' = AfterGet(pri, x)
    /\ it' = IterAdjust(it, pri, pri')
    /\ ret' = NoReturn
    /\ UNCHANGED <<cls, heap, weakrefs, expect, clob, delivered, iterable, native, thrown>>

\* has(x) is called
CallHas(x) ==
    /\ pri' = AfterHas(pri, x)
    /\ it' = IterAdjust(it, pri, pri')
    /\ ret' = NoReturn
    /\ UNCHANGED <<cls, heap, weakrefs, expect, clob, delivered, iterable, native, thrown>>

\* size is read
CallSize ==
    /\ pri' = AfterSize(pri)
    /\ it' = IterAdjust(it, pri, pri')
    /\ ret' = NoReturn
    /\ UNCHANGED <<cls, heap, weakrefs, expect, clob, delivered, iterable, native, thrown>>

\* the private data after a whole iteration (forEach, for-of, spread): the
\* loop reads the surface and deref() and assigns nothing
AfterForEach(p) == p

\* the container is iterated from start to end, yielding Yielded
CallForEach ==
    /\ pri' = AfterForEach(pri)
    /\ it' = IterAdjust(it, pri, pri')
    /\ ret' = NoReturn
    /\ UNCHANGED <<cls, heap, weakrefs, expect, clob, delivered, iterable, native, thrown>>

Next ==
    \/ \E o \in Objs : Add(o)
    \/ \E o \in Objs : SetDelete(o)
    \/ SetClear
    \/ \E o \in Objs, v \in Vals : MapSet(o, v)
    \/ \E o \in Objs : MapDelete(o)
    \/ MapClear
    \/ \E k \in Keys, o \in Objs : ValueMapSet(k, o)
    \/ \E k \in Keys : ValueMapDelete(k)
    \/ ValueMapClear
    \/ \E o \in Objs : Drop(o)
    \/ \E o \in Objs : Retain(o)
    \/ \E o \in Objs : Collect(o)
    \/ \E c \in pri.fr : Deliver(c)

Spec == Init /\ [][Next]_vars

\* the host eventually reclaims every object that stays unreachable and
\* eventually delivers a callback while one is due
Fairness ==
    /\ \A o \in Objs : WF_vars(Collect(o))
    /\ WF_vars(\E c \in pri.fr : Deliver(c))

LiveSpec == Init /\ [][Next]_vars /\ Fairness

\* the calls and the host steps, with one iterator that the caller creates
\* and steps in between
IterNext ==
    \/ Next
    \/ IterStart
    \/ IterStep

IterSpec == Init /\ [][IterNext]_vars

\* the calls and the host steps, with a caller that also reads
ReadNext ==
    \/ Next
    \/ \E x \in Dom : CallGet(x)
    \/ \E x \in Dom : CallHas(x)
    \/ CallSize
    \/ CallForEach

ReadSpec == Init /\ [][ReadNext]_vars

\* ------------------------------------------------------------ read path
\* has(x) of the constructed class
Has(x) ==
    CASE cls = "MeekSet" -> MeekSet_has(pri, x)
      [] cls = "MeekMap" -> MeekMap_has(pri, x)
      [] OTHER -> MeekValueMap_has(pri, x)

\* get(x) of the map classes
Get(x) == IF cls = "MeekMap" THEN MeekMap_get(pri, x) ELSE MeekValueMap_get(pri, x)

\* the object an entry holds weakly: the member or key itself, or the value
Referent(x) == IF cls = "MeekValueMap" THEN expect[x] ELSE x

\* the key a registration belongs to
CellKey(c) == IF cls = "MeekValueMap" THEN c.held ELSE c.target

\* the token the container currently holds for key x, None when it has none
IndexToken(x) ==
    IF cls = "MeekValueMap" THEN KwvGet(pri.kwv, x)
    ELSE IF \E i \in DOMAIN Surface : weakrefs[Surface[i]] = x
         THEN Surface[CHOOSE i \in DOMAIN Surface : weakrefs[Surface[i]] = x]
         ELSE None

\* token r is on the enumeration surface, i.e. counted by size
OnSurface(r) == SeqHas(Surface, r)

\* what a full iteration yields, in order
Yielded ==
    CASE cls = "MeekSet" -> MeekSet_values(pri.wv)
      [] cls = "MeekMap" -> MeekMap_entries(pri.wk, pri.kv)
      [] OTHER -> MeekValueMap_entries(pri.kwv)

\* the number of entries a full iteration yields
NumYielded == Len(Yielded)

\* a step of clear() of the constructed class
Clear == SetClear \/ MapClear \/ ValueMapClear

\* the registrations attached for token r
CellsOf(r) == {c \in pri.fr : CellRef(c) = r}

\* the instance without its registry: index and enumeration surface
Store == [pri EXCEPT !.fr = {}]

\* a registration that is the one of a current entry
Current(c) == IndexToken(CellKey(c)) = CellRef(c)

\* C1: no clobbering in MeekValueMap: once a key whose old value was
\* unreachable has been overwritten with B, and while B stays reachable and the
\* key is not deleted, cleared or overwritten, get(k) is B and has(k) is true,
\* whatever is reclaimed and delivered in between.
C1_NoClobbering ==
    cls = "MeekValueMap" =>
        \A k \in clob :
            heap[expect[k]] = "held" =>
                /\ MeekValueMap_get(pri, k) = expect[k]
                /\ MeekValueMap_has(pri, k)

\* the overwritten value was reclaimed, every callback still attached was
\* delivered, and the key still maps to the new value
C1_Witness ==
    /\ cls = "MeekValueMap"
    /\ \E k \in clob :
          /\ heap[expect[k]] = "held"
          /\ MeekValueMap_get(pri, k) = expect[k]
          /\ \A o \in Objs \ {expect[k]} : heap[o] = "collected"
          /\ \A c \in pri.fr : ~Pending(c)
          /\ delivered # {}

\* C2: an entry whose referent stays reachable is never removed by
\* reclamation: has is true and get returns the value last set, in all three
\* classes.
C2_LiveEntryKept ==
    \A x \in DOMAIN expect :
        (expect[x] # None /\ heap[Referent(x)] = "held") =>
            /\ Has(x)
            /\ cls # "MeekSet" => Get(x) = expect[x]

\* an entry with a reachable referent is intact after another entry was
\* reclaimed and its callback delivered
C2_Witness ==
    \E x \in DOMAIN expect, y \in DOMAIN expect :
        /\ x # y
        /\ expect[x] # None /\ heap[Referent(x)] = "held" /\ Has(x)
        /\ expect[y] # None /\ heap[Referent(y)] = "collected"
        /\ \E r \in delivered : weakrefs[r] = Referent(y)

C4_ReadPathAuthoritative ==
    cls \in {"MeekMap", "MeekValueMap"} =>
        \A c \in pri.fr :
            (Pending(c) /\ Current(c)) =>
                /\ ~Has(CellKey(c))
                /\ Get(CellKey(c)) = None
                /\ Size > NumYielded

\* a MeekValueMap key whose value was reclaimed, callback still due
C4_Witness ==
    /\ cls = "MeekValueMap"
    /\ \E c \in pri.fr :
          /\ Pending(c) /\ Current(c)
          /\ expect[c.held] = c.target
          /\ ~MeekValueMap_has(pri, c.held)
          /\ MeekValueMap_size(pri) = 2

\* C5: a callback delivered for a registration whose key is absent from the
\* index, or whose key holds a different token, leaves index, enumeration
\* surface and size unchanged.
C5_StaleCallbackInert ==
    [][\A c \in pri.fr :
          (Deliver(c) /\ ~Current(c)) =>
              /\ Store' = Store
              /\ Surface' = Surface
              /\ Size' = Size]_vars

\* the callback of a token removed by clear() was delivered while the same
\* referent was on the enumeration surface under a newer token
C5_Witness ==
    \E r1 \in delivered, r2 \in 1..Len(weakrefs) :
        /\ r1 # r2
        /\ weakrefs[r1] = weakrefs[r2]
        /\ OnSurface(r2)
        /\ cls # "MeekValueMap"

\* C6: registration lifecycle: every index entry has exactly one attached
\* registration, for its current token; registrations are created only
\* alongside a fresh token; and a token taken off the index by an overwrite
\* or a delete (any step but clear() of MeekSet/MeekMap) has no registration
\* left.
C6_RegistrationLifecycle ==
    /\ [](\A r \in 1..MaxRefs : OnSurface(r) => Cardinality(CellsOf(r)) = 1)
    /\ [][\A c \in pri.fr' \ pri.fr :
              CellRef(c) = NewWeakRef /\ SeqHas(Surface', CellRef(c))]_vars
    /\ [][\A r \in 1..MaxRefs :
              (OnSurface(r) /\ ~OnSurface(r)' /\ ~(SetClear \/ MapClear)) =>
                  CellsOf(r)' = {}]_vars

\* a MeekValueMap key was overwritten, the value it held before is reclaimed
\* and has no registration, and the current entry has exactly one
C6_Witness ==
    /\ cls = "MeekValueMap"
    /\ \E k \in clob, r \in 1..Len(weakrefs) :
          /\ ~OnSurface(r) /\ r \notin delivered /\ CellsOf(r) = {}
          /\ heap[weakrefs[r]] = "collected"
          /\ Cardinality(CellsOf(IndexToken(k))) = 1
          /\ Len(pri.kwv) = 1

EntriesOf(o) == {r \in 1..Len(weakrefs) : OnSurface(r) /\ weakrefs[r] = o}

\* C8: reclamation of a referent inserted before a clear() and inserted again
\* after it removes exactly the re-inserted entry: the callbacks due for a
\* reclaimed referent that belong to a current entry are as many as its
\* entries (one in MeekSet and MeekMap), and each delivery removes the token
\* it was registered for and nothing else, keeping the order of the rest.
C8_ReclaimAfterClear ==
    /\ [](\A o \in Objs :
            heap[o] = "collected" =>
                /\ Cardinality({c \in pri.fr : c.target = o /\ Current(c)})
                       = Cardinality(EntriesOf(o))
                /\ cls # "MeekValueMap" => Cardinality(EntriesOf(o)) <= 1)
    /\ [][\A c \in pri.fr :
              Deliver(c) =>
                  /\ Surface' = SeqDelete(Surface, CellRef(c))
                  /\ Size' = IF Current(c) THEN Size - 1 ELSE Size
                  /\ cls = "MeekSet" => pri.vwv' = pri.vwv
                  /\ cls = "MeekMap" => pri.kwk' = pri.kwk /\ pri.kv' = pri.kv]_vars

\* an object was inserted, cleared and inserted again, then reclaimed; both
\* its callbacks were delivered and the other entry is still there
C8_Witness ==
    /\ cls # "MeekValueMap"
    /\ \E r1 \in delivered, r2 \in delivered :
          /\ r1 # r2
          /\ weakrefs[r1] = weakrefs[r2]
          /\ Size = 1
          /\ NumYielded = 1

\* C9: size is the number of index entries: the entries an iteration yields
\* plus the entries whose referent was reclaimed and whose callback is still
\* due; so size >= yielded, with equality when no such entry exists.
C9_SizeCountsIndex ==
    LET due == {c \in pri.fr : Pending(c) /\ Current(c)} IN
    /\ Size = NumYielded + Cardinality(due)
    /\ Size >= NumYielded
    /\ due = {} => Size = NumYielded

\* size counts one live entry and one reclaimed entry
C9_Witness ==
    /\ Size = 2
    /\ NumYielded = 1
    /\ \E c \in pri.fr : Pending(c) /\ Current(c)

\* the elements of a sequence
Range(s) == {s[i] : i \in DOMAIN s}

\* what the caller stored and is still alive: members, or [key, value] pairs
LiveExpected ==
    CASE cls = "MeekSet" ->
            {o \in Objs : expect[o] # None /\ heap[o] # "collected"}
      [] cls = "MeekMap" ->
            {<<o, expect[o]>> : o \in {q \in Objs : expect[q] # None /\ heap[q] # "collected"}}
      [] OTHER ->
            {<<k, expect[k]>> : k \in {q \in Keys : expect[q] # None /\ heap[expect[q]] # "collected"}}

\* C10: an iteration yields exactly the entries whose referent is alive, each
\* once and with the value last set for its key; an entry whose referent was
\* reclaimed is not yielded even while its callback is due.
C10_IterationYieldsLive ==
    /\ Range(Yielded) = LiveExpected
    /\ Len(Yielded) = Cardinality(LiveExpected)

\* a MeekValueMap iteration skips a reclaimed entry whose callback is due and
\* yields an overwritten key with its new value
C10_Witness ==
    /\ cls = "MeekValueMap"
    /\ Len(pri.kwv) = 2
    /\ Len(Yielded) = 1
    /\ \E k \in clob : Yielded[1] = <<k, expect[k]>>
    /\ \E c \in pri.fr : Pending(c) /\ Current(c)

\* ------------------------------------------------------ iteration order
\* the keys a full iteration yields, in order
YieldedKeys ==
    IF cls = "MeekSet" THEN Yielded ELSE [i \in DOMAIN Yielded |-> Yielded[i][1]]

\* an insertion under key x: add(x), or set(x, v) for some v
Insert(x) ==
    \/ Add(x)
    \/ \E v \in Vals : MapSet(x, v)
    \/ \E o \in Objs : ValueMapSet(x, o)

\* delete(x) of the constructed class
Delete(x) == SetDelete(x) \/ MapDelete(x) \/ ValueMapDelete(x)

SurfaceKeys ==
    IF cls = "MeekValueMap" THEN [i \in DOMAIN pri.kwv |-> pri.kwv[i].key]
    ELSE [i \in DOMAIN Surface |-> weakrefs[Surface[i]]]

\* C12: an insertion under a key that has a live entry overwrites in place:
\* add(v) of a member, and set(k, v) of a present key of MeekMap or
\* MeekValueMap, leave the size and the position of the key unchanged, and
\* get(k) afterwards returns the new value.
C12_OverwriteInPlace ==
    [][\A x \in Dom : Has(x) =>
        /\ Add(x) => (Size' = Size /\ SurfaceKeys' = SurfaceKeys /\ Has(x)')
        /\ \A v \in Vals : MapSet(x, v) =>
              (Size' = Size /\ SurfaceKeys' = SurfaceKeys /\ Get(x)' = v)
        /\ \A o \in Objs : ValueMapSet(x, o) =>
              (Size' = Size /\ SurfaceKeys' = SurfaceKeys /\ Get(x)' = o)]_vars

\* the first of two keys of a MeekValueMap was set again while its value was
\* alive: it is still first, with the newer token and the new value
C12_Witness ==
    /\ cls = "MeekValueMap"
    /\ \A o \in Objs : heap[o] = "held"
    /\ Len(pri.kwv) = 2
    /\ pri.kwv[1].ref = 3
    /\ pri.kwv[2].ref = 2
    /\ weakrefs[1] # weakrefs[3]
    /\ Get(pri.kwv[1].key) = weakrefs[3]

\* --------------------------------------------- set() under a reclaimed key
\* the value last set for key k of a MeekValueMap has been reclaimed
Reclaimed(k) == expect[k] # None /\ heap[expect[k]] = "collected"

InIndex(x) ==
    CASE cls = "MeekSet" -> pri.vwv[x] # None
      [] cls = "MeekMap" -> pri.kwk[x] # None
      [] OTHER -> KwvGet(pri.kwv, x) # None

\* what delete(x) of the constructed class returns
DeleteResult(x) ==
    CASE cls = "MeekSet" -> MeekSet_deleteResult(pri, x)
      [] cls = "MeekMap" -> MeekMap_deleteResult(pri, x)
      [] OTHER -> MeekValueMap_deleteResult(pri, x)

\* C14: delete(key) returns true exactly when the index had an entry for the
\* key; it then removes the entry from the index and its token from the
\* enumeration surface, detaches the registration of the token and lowers the
\* size by one. Otherwise it returns false and changes nothing. A delete
\* repeated right after returns false.
C14_Delete ==
    /\ [](\A x \in Dom : DeleteResult(x) = InIndex(x))
    /\ [][\A x \in Dom : (Delete(x) /\ InIndex(x)) =>
            /\ ~InIndex(x)'
            /\ Size' = Size - 1
            /\ ~SeqHas(Surface', IndexToken(x))
            /\ \A c \in pri.fr' : CellRef(c) # IndexToken(x)
            /\ ~DeleteResult(x)']_vars
    /\ [][\A x \in Dom : (Delete(x) /\ ~InIndex(x)) =>
            (pri' = pri /\ ~DeleteResult(x)')]_vars

\* a member of a MeekSet was deleted while another one stayed: its token is off
\* the surface and has no registration, although the member was never reclaimed
C14_Witness ==
    /\ cls = "MeekSet"
    /\ Size = 1
    /\ \E r \in DOMAIN weakrefs :
          /\ heap[weakrefs[r]] = "held"
          /\ ~OnSurface(r)
          /\ CellsOf(r) = {}
          /\ ~InIndex(weakrefs[r])
          /\ ~DeleteResult(weakrefs[r])

\* ---------------------------------------------------------------- clear
\* C15: after clear() the size is 0, has() is false for every key, also the
\* ones present before, and an iteration yields nothing; a second clear()
\* leaves the container empty; an insertion into the emptied container, also
\* of a key that was present before, makes has() true with size 1.
C15_ClearEmpties ==
    /\ [][Clear => (Size' = 0 /\ Yielded' = <<>> /\ \A x \in Dom : ~Has(x)')]_vars
    /\ [][\A x \in Dom : (Size = 0 /\ Insert(x)) =>
            (Has(x)' /\ Size' = 1 /\ YieldedKeys' = <<x>>)]_vars

\* a member of a MeekSet was cleared away and added again: it is the only
\* member and the registration from before the clear is still there
C15_Witness ==
    /\ cls = "MeekSet"
    /\ Size = 1
    /\ \E x \in Objs :
          /\ Has(x)
          /\ Cardinality({c \in pri.fr : c.target = x}) = 2

\* ---------------------------------------------------------- constructors
\* the loop body of the MeekSet constructor; refs are the WeakRefs created
MeekSet_constructorStep(st, value) ==
    IF st.vwv[value] = None
    THEN [fr   |-> Register(st.fr, value, Len(st.refs) + 1, value),
          vwv  |-> [st.vwv EXCEPT ![value] = Len(st.refs) + 1],
          wv   |-> SeqAdd(st.wv, Len(st.refs) + 1),
          refs |-> Append(st.refs, value)]
    ELSE st

RECURSIVE MeekSet_constructorLoop(_, _)
MeekSet_constructorLoop(st, todo) ==
    IF todo = <<>> THEN st
    ELSE MeekSet_constructorLoop(MeekSet_constructorStep(st, Head(todo)), Tail(todo))

\* new MeekSet(iterable)
MeekSet_constructor(iter) ==
    MeekSet_constructorLoop(
        [fr |-> {}, vwv |-> EmptyWeakMap, wv |-> <<>>, refs |-> <<>>], iter)

\* a loop body that stores the value only with a new key
MeekMap_constructorStep_firstWins(st, e) ==
    IF st.kwk[e[1]] = None
    THEN [fr   |-> Register(st.fr, e[1], Len(st.refs) + 1, e[1]),
          kwk  |-> [st.kwk EXCEPT ![e[1]] = Len(st.refs) + 1],
          wk   |-> SeqAdd(st.wk, Len(st.refs) + 1),
          kv   |-> [st.kv EXCEPT ![e[1]] = e[2]],
          refs |-> Append(st.refs, e[1])]
    ELSE st

\* the loop body of the MeekMap constructor for the pair e = [key, value]
MeekMap_constructorStep(st, e) ==
    IF st.kwk[e[1]] = None
    THEN [fr   |-> Register(st.fr, e[1], Len(st.refs) + 1, e[1]),
          kwk  |-> [st.kwk EXCEPT ![e[1]] = Len(st.refs) + 1],
          wk   |-> SeqAdd(st.wk, Len(st.refs) + 1),
          kv   |-> [st.kv EXCEPT ![e[1]] = e[2]],
          refs |-> Append(st.refs, e[1])]
    ELSE [st EXCEPT !.kv[e[1]] = e[2]]

RECURSIVE MeekMap_constructorLoop(_, _)
MeekMap_constructorLoop(st, todo) ==
    IF todo = <<>> THEN st
    ELSE MeekMap_constructorLoop(MeekMap_constructorStep(st, Head(todo)), Tail(todo))

\* new MeekMap(iterable)
MeekMap_constructor(iter) ==
    MeekMap_constructorLoop(
        [fr |-> {}, kwk |-> EmptyWeakMap, wk |-> <<>>, kv |-> EmptyWeakMap,
         refs |-> <<>>], iter)

\* the loop body of the MeekValueMap constructor for the pair e = [key, value]
MeekValueMap_constructorStep(st, e) ==
    LET old == KwvGet(st.kwv, e[1])
        fr1 == IF old # None THEN Unregister(st.fr, old) ELSE st.fr
    IN  [fr   |-> Register(fr1, e[2], e[1], Len(st.refs) + 1),
         kwv  |-> KwvSet(st.kwv, e[1], Len(st.refs) + 1),
         refs |-> Append(st.refs, e[2])]

RECURSIVE MeekValueMap_constructorLoop(_, _)
MeekValueMap_constructorLoop(st, todo) ==
    IF todo = <<>> THEN st
    ELSE MeekValueMap_constructorLoop(
            MeekValueMap_constructorStep(st, Head(todo)), Tail(todo))

\* new MeekValueMap(iterable)
MeekValueMap_constructor(iter) ==
    MeekValueMap_constructorLoop([fr |-> {}, kwv |-> <<>>, refs |-> <<>>], iter)

\* the private data and the WeakRefs after new cls(iter)
Constructed(iter) ==
    CASE cls = "MeekSet" ->
            LET st == MeekSet_constructor(iter)
            IN  [pri |-> [fr |-> st.fr, vwv |-> st.vwv, wv |-> st.wv],
                 weakrefs |-> st.refs]
      [] cls = "MeekMap" ->
            LET st == MeekMap_constructor(iter)
            IN  [pri |-> [fr |-> st.fr, kwk |-> st.kwk, wk |-> st.wk, kv |-> st.kv],
                 weakrefs |-> st.refs]
      [] OTHER ->
            LET st == MeekValueMap_constructor(iter)
            IN  [pri |-> [fr |-> st.fr, kwv |-> st.kwv], weakrefs |-> st.refs]

\* what an iterable passed to the constructor can yield: values, or pairs
Items ==
    CASE cls = "MeekSet" -> Objs
      [] cls = "MeekMap" -> Objs \X Vals
      [] OTHER -> Keys \X Objs

\* the key of an item of the iterable
ItemKey(e) == IF cls = "MeekSet" THEN e ELSE e[1]

\* the instance is constructed from the iterable extended by the item e
Construct(e) ==
    /\ Len(iterable) < MaxRefs
    /\ iterable' = Append(iterable, e)
    /\ pri' = Constructed(iterable').pri
    /\ weakrefs' = Constructed(iterable').weakrefs
    /\ expect' = [expect EXCEPT ![ItemKey(e)] = IF cls = "MeekSet" THEN 1 ELSE e[2]]
    /\ ret' = NoReturn
    /\ UNCHANGED <<cls, heap, clob, delivered, it, native, thrown>>

CtorNext == \E e \in Items : Construct(e)

\* the constructions from every iterable of at most MaxRefs items
CtorSpec == Init /\ [][CtorNext]_vars

\* the private data and the WeakRefs after add(e) or set(e[1], e[2]) on the
\* instance as it is
Inserted(e) ==
    CASE cls = "MeekSet" ->
            [pri |-> MeekSet_add(pri, e),
             weakrefs |-> IF pri.vwv[e] = None THEN Append(weakrefs, e) ELSE weakrefs]
      [] cls = "MeekMap" ->
            [pri |-> MeekMap_set(pri, e[1], e[2]),
             weakrefs |-> IF pri.kwk[e[1]] = None THEN Append(weakrefs, e[1])
                                                  ELSE weakrefs]
      [] OTHER ->
            [pri |-> MeekValueMap_set(pri, e[1], e[2]),
             weakrefs |-> Append(weakrefs, e[2])]

\* the value of the last pair of the iterable with key k
LastValue(k) ==
    iterable[CHOOSE i \in DOMAIN iterable :
                /\ iterable[i][1] = k
                /\ \A j \in DOMAIN iterable : iterable[j][1] = k => j <= i][2]

\* C16: constructing from an ordered iterable is the same as constructing empty
\* and inserting the items one by one: the instance constructed from the
\* iterable with one more item is the instance constructed from the iterable
\* after add/set of that item (same index, order, size and registrations). So
\* a later pair with the same key overrides an earlier one, and a value
\* repeated in the iterable of a MeekSet is counted once.
C16_ConstructorInserts ==
    /\ [][\A e \in Items : Construct(e) =>
            (pri' = Inserted(e).pri /\ weakrefs' = Inserted(e).weakrefs)]_vars
    /\ [](/\ Size = Cardinality({ItemKey(iterable[i]) : i \in DOMAIN iterable})
          /\ \A i \in DOMAIN iterable :
                /\ Has(ItemKey(iterable[i]))
                /\ cls # "MeekSet" => Get(iterable[i][1]) = LastValue(iterable[i][1]))

\* a MeekValueMap constructed from three pairs, the third with the key of the
\* first and another value: two entries, and the key has the third value
C16_Witness ==
    /\ cls = "MeekValueMap"
    /\ Len(iterable) = 3
    /\ Len(pri.kwv) = 2
    /\ iterable[1][1] = iterable[3][1]
    /\ iterable[1][2] # iterable[3][2]
    /\ Get(iterable[1][1]) = iterable[3][2]
    /\ pri.kwv[1].ref = 3

\* ------------------------------------------------- iteration in progress
\* the token the index holds for key x, None when it has no entry
IndexRef(x) ==
    CASE cls = "MeekSet" -> pri.vwv[x]
      [] cls = "MeekMap" -> pri.kwk[x]
      [] OTHER -> KwvGet(pri.kwv, x)

\* the key of the entry the next step of the iterator yields
IterKey ==
    IF cls = "MeekValueMap" THEN pri.kwv[NextLive(it.pos)].key ELSE Deref(IterToken)

\* C18: during one iteration of any class, an entry removed before the cursor
\* reaches it (by delete, or by a callback delivered between two steps) is
\* never yielded: what the next step yields is on the surface and is the entry
\* the index has for its key at that moment; and when nothing is left in the
\* index, as after clear() with no insertion, the next step yields nothing and
\* finishes the iteration.
C18_RemovedNeverYielded ==
    it.state = "suspended" =>
        /\ IterToken # None =>
              (OnSurface(IterToken) /\ IndexRef(IterKey) = IterToken /\ Has(IterKey))
        /\ (\A x \in Dom : ~InIndex(x)) =>
              (IterToken = None /\ IterStepped.state = "done")

\* the iterator yielded one entry, the only other entry was removed before the
\* cursor reached it, and the next step finishes the iteration
C18_Witness ==
    /\ it.state = "suspended"
    /\ it.pos = 1
    /\ it.lost
    /\ Size = 1
    /\ IterToken = None

\* ------------------------------------- a MeekMap beside a native Map
\* the keys of the native Map m, in order
NativeKeys(m) == [i \in DOMAIN m |-> m[i][1]]

\* Map.prototype.set of the native Map: a present key keeps its place
NativeSet(m, key, value) ==
    IF \E i \in DOMAIN m : m[i][1] = key
    THEN [i \in DOMAIN m |-> IF m[i][1] = key THEN <<key, value>> ELSE m[i]]
    ELSE Append(m, <<key, value>>)

\* Map.prototype.delete of the native Map
NativeDelete(m, key) == SelectSeq(m, LAMBDA e : e[1] # key)

\* the native Map and its iterator after a call that changes the Map into m
NativeAfter(m) ==
    [map |-> m,
     it  |-> CursorAdjust(native.it, NativeKeys(native.map), NativeKeys(m),
                          NativeKeys(native.map), NativeKeys(m))]

\* what the next step of the MeekMap iterator yields, <<>> when it finishes
MeekMap_iterYield ==
    IF IterToken = None THEN <<>>
    ELSE <<Deref(IterToken), pri.kv[Deref(IterToken)]>>

\* what the next step of the native iterator yields, <<>> when it finishes
NativeYield ==
    IF native.it.pos < Len(native.map) THEN native.map[native.it.pos + 1] ELSE <<>>

\* map.set(key, value) on both maps (readWhileModify, or before it)
LoopSet(key, value) ==
    /\ InOrder(key)
    /\ pri.kwk[key] = None => CanAlloc
    /\ pri' = MeekMap_set(pri, key, value)
    /\ weakrefs' = IF pri.kwk[key] = None THEN Append(weakrefs, key) ELSE weakrefs
    /\ expect' = [expect EXCEPT ![key] = value]
    /\ it' = IterAdjust(it, pri, pri')
    /\ native' = NativeAfter(NativeSet(native.map, key, value))
    /\ ret' = NoReturn
    /\ UNCHANGED <<cls, heap, clob, delivered, iterable, thrown>>

\* map.delete(key) on both maps
LoopDelete(key) ==
    /\ pri' = MeekMap_delete(pri, key)
    /\ expect' = [expect EXCEPT ![key] = None]
    /\ it' = IterAdjust(it, pri, pri')
    /\ native' = NativeAfter(NativeDelete(native.map, key))
    /\ ret' = NoReturn
    /\ UNCHANGED <<cls, heap, weakrefs, clob, delivered, iterable, thrown>>

\* map.clear() on both maps
LoopClear ==
    /\ pri' = MeekMap_clear(pri)
    /\ expect' = [o \in Objs |-> None]
    /\ it' = IterAdjust(it, pri, pri')
    /\ native' = NativeAfter(<<>>)
    /\ ret' = NoReturn
    /\ UNCHANGED <<cls, heap, weakrefs, clob, delivered, iterable, thrown>>

\* for (const [_, v] of map) begins on both maps
LoopStart ==
    /\ it.state = "none"
    /\ it' = [state |-> "suspended", pos |-> 0, lost |-> FALSE]
    /\ native' = [native EXCEPT !.it = [state |-> "suspended", pos |-> 0, lost |-> FALSE]]
    /\ ret' = NoReturn
    /\ UNCHANGED <<cls, heap, weakrefs, pri, expect, clob, delivered, iterable, thrown>>

\* both for-of loops ask their iterator for the next pair
LoopStep ==
    /\ it.state = "suspended" \/ native.it.state = "suspended"
    /\ it' = IF it.state = "suspended" THEN IterStepped ELSE it
    /\ native' = IF native.it.state # "suspended" THEN native
                 ELSE IF NativeYield = <<>>
                      THEN [native EXCEPT !.it = [state |-> "done", pos |-> 0, lost |-> FALSE]]
                      ELSE [native EXCEPT !.it.pos = @ + 1]
    /\ ret' = NoReturn
    /\ UNCHANGED <<cls, heap, weakrefs, pri, expect, clob, delivered, iterable, thrown>>

MapIterInit == Init /\ cls = "MeekMap"

MapIterNext ==
    \/ \E o \in Objs, v \in Vals : LoopSet(o, v)
    \/ \E o \in Objs : LoopDelete(o)
    \/ LoopClear
    \/ LoopStart
    \/ LoopStep

\* a MeekMap and a native Map given the same calls, before and during one
\* iteration of both; the caller keeps every key
MapIterSpec == MapIterInit /\ [][MapIterNext]_vars

\* C17: iterating a MeekMap whose keys all stay alive, while the loop body
\* deletes keys, clears the map and inserts keys again, yields the same
\* sequence as a native Map given the same calls from inside the same loop:
\* both iterations yield the same pair at every step and finish together.
C17_IteratesLikeNativeMap ==
    /\ it.state = native.it.state
    /\ it.state = "suspended" => MeekMap_iterYield = NativeYield

\* during the iteration a key not visited yet was removed, the map was cleared
\* and a key was inserted again: both iterators are back at the start and
\* yield that key next
C17_Witness ==
    /\ it.state = "suspended"
    /\ it.lost
    /\ it.pos = 0
    /\ Surface = <<3>>
    /\ Cardinality({c \in pri.fr : c.target = weakrefs[3]}) = 2
    /\ MeekMap_iterYield # <<>>
    /\ NativeYield = MeekMap_iterYield

\* ---------------------------------------------------------------- reads
\* a call of a read operation: get, has, size, or an iteration
Read ==
    \/ \E x \in Dom : CallGet(x) \/ CallHas(x)
    \/ CallSize
    \/ CallForEach

\* C19: read operations never mutate: get, has, size and every iteration
\* leave the index, the enumeration surface, the size and the attached
\* registrations as they were, also when an entry they meet has a reclaimed
\* referent.
C19_ReadsNeverMutate ==
    [][Read => (pri' = pri /\ Size' = Size /\ Surface' = Surface)]_vars

\* a MeekValueMap read while one of its two entries is dead with its
\* registration attached: get() of its key is undefined, the iteration skips
\* it, and it is still in the index and counted
C19_Witness ==
    /\ cls = "MeekValueMap"
    /\ Len(pri.kwv) = 2
    /\ \E k \in Keys :
          /\ IndexRef(k) # None
          /\ Get(k) = None
          /\ CellsOf(IndexRef(k)) # {}
          /\ YieldedKeys = <<CHOOSE q \in Keys : q # k /\ IndexRef(q) # None>>

\* ------------------------------------------------ referents not held weakly
\* a value that is not an object (and not a symbol): new WeakRef of it throws
Primitive == -1

\* new WeakRef(x) and FinalizationRegistry.register(x, ...) accept x
CanBeHeldWeakly(x) == x \in Objs

\* add(value) for any value: the private data after the call and whether it
\* threw. vwv.get of a primitive finds nothing, then new WeakRef(value) throws
MeekSet_addCall(p, value) ==
    IF CanBeHeldWeakly(value) /\ p.vwv[value] # None THEN [pri |-> p, thrown |-> FALSE]
    ELSE IF ~CanBeHeldWeakly(value) THEN [pri |-> p, thrown |-> TRUE]
    ELSE [pri |-> MeekSet_add(p, value), thrown |-> FALSE]

\* set(key, value) of MeekMap for any key: kwk.get of a primitive finds
\* nothing, then new WeakRef(key) throws
MeekMap_setCall(p, key, value) ==
    IF ~CanBeHeldWeakly(key) THEN [pri |-> p, thrown |-> TRUE]
    ELSE [pri |-> MeekMap_set(p, key, value), thrown |-> FALSE]

\* set() that unregisters the old token before it creates the new WeakRef
MeekValueMap_setCall_unregistersFirst(p, key, value) ==
    IF ~CanBeHeldWeakly(value)
    THEN [pri |-> [p EXCEPT !.fr = Unregister(@, KwvGet(p.kwv, key))], thrown |-> TRUE]
    ELSE [pri |-> MeekValueMap_set(p, key, value), thrown |-> FALSE]

\* set(key, value) of MeekValueMap for any value: new WeakRef(value) is the
\* first statement
MeekValueMap_setCall(p, key, value) ==
    IF ~CanBeHeldWeakly(value) THEN [pri |-> p, thrown |-> TRUE]
    ELSE [pri |-> MeekValueMap_set(p, key, value), thrown |-> FALSE]

\* what other.keys() of the operand of a set operation can yield, in order
Others ==
    {<<>>} \cup {<<a>> : a \in Objs \cup {Primitive}}
           \cup {<<a, b>> : a \in Objs \cup {Primitive}, b \in Objs \cup {Primitive}}

\* union(other): the new set gets the live members, then set.add of every key
\* of other; the add of a key that cannot be held weakly throws
MeekSet_unionThrows(p, other) == \E i \in DOMAIN other : ~CanBeHeldWeakly(other[i])

\* symmetricDifference(other): the keys of other that vwv does not have are
\* added to the new set; vwv.has of a primitive is false, its add throws
MeekSet_symmetricDifferenceThrows(p, other) ==
    \E i \in DOMAIN other :
        /\ ~(CanBeHeldWeakly(other[i]) /\ p.vwv[other[i]] # None)
        /\ ~CanBeHeldWeakly(other[i])

\* add(value) with a primitive
AddPrimitive ==
    /\ cls = "MeekSet"
    /\ pri' = MeekSet_addCall(pri, Primitive).pri
    /\ thrown' = MeekSet_addCall(pri, Primitive).thrown
    /\ it' = IterAdjust(it, pri, pri')
    /\ ret' = NoReturn
    /\ UNCHANGED <<cls, heap, weakrefs, expect, clob, delivered, iterable, native>>

\* set(key, value) of MeekMap with a primitive key
MapSetPrimitive(value) ==
    /\ cls = "MeekMap"
    /\ pri' = MeekMap_setCall(pri, Primitive, value).pri
    /\ thrown' = MeekMap_setCall(pri, Primitive, value).thrown
    /\ it' = IterAdjust(it, pri, pri')
    /\ ret' = NoReturn
    /\ UNCHANGED <<cls, heap, weakrefs, expect, clob, delivered, iterable, native>>

\* set(key, value) of MeekValueMap with a primitive value
ValueMapSetPrimitive(key) ==
    /\ cls = "MeekValueMap"
    /\ pri' = MeekValueMap_setCall(pri, key, Primitive).pri
    /\ thrown' = MeekValueMap_setCall(pri, key, Primitive).thrown
    /\ it' = IterAdjust(it, pri, pri')
    /\ ret' = NoReturn
    /\ UNCHANGED <<cls, heap, weakrefs, expect, clob, delivered, iterable, native>>

\* union(other): this set is only read; the new set is the caller's
Union(other) ==
    /\ cls = "MeekSet"
    /\ thrown' = MeekSet_unionThrows(pri, other)
    /\ ret' = NoReturn
    /\ UNCHANGED <<cls, heap, weakrefs, pri, expect, clob, delivered, iterable, it, native>>

\* symmetricDifference(other): this set is only read
SymmetricDifference(other) ==
    /\ cls = "MeekSet"
    /\ thrown' = MeekSet_symmetricDifferenceThrows(pri, other)
    /\ ret' = NoReturn
    /\ UNCHANGED <<cls, heap, weakrefs, pri, expect, clob, delivered, iterable, it, native>>

ThrowNext ==
    \/ Next
    \/ AddPrimitive
    \/ \E v \in Vals : MapSetPrimitive(v)
    \/ \E k \in Keys : ValueMapSetPrimitive(k)
    \/ \E other \in Others : Union(other)
    \/ \E other \in Others : SymmetricDifference(other)

\* the calls and the host steps, with callers that also pass primitives
ThrowSpec == Init /\ [][ThrowNext]_vars

\* an insertion of a primitive referent: by add, by set, or from the operand
\* of union or symmetricDifference
InsertPrimitive ==
    \/ AddPrimitive
    \/ \E v \in Vals : MapSetPrimitive(v)
    \/ \E k \in Keys : ValueMapSetPrimitive(k)
    \/ \E other \in Others :
          /\ \E i \in DOMAIN other : other[i] = Primitive
          /\ Union(other) \/ SymmetricDifference(other)

\* C20: inserting a referent that cannot be held weakly (a primitive value in
\* MeekSet.add, key in MeekMap.set, value in MeekValueMap.set, or a primitive
\* key of the operand of union or symmetricDifference) throws at the insertion
\* and retains nothing: the container keeps its index, surface, size and
\* registrations, and no WeakRef was created.
C20_PrimitiveInsertThrows ==
    [][InsertPrimitive =>
        (thrown' /\ pri' = pri /\ Size' = Size /\ weakrefs' = weakrefs)]_vars

\* a set() with a primitive value threw on a MeekValueMap that has a live
\* entry with its registration attached
C20_Witness ==
    /\ cls = "MeekValueMap"
    /\ thrown
    /\ Size = 1
    /\ Deref(Surface[1]) # None
    /\ CellsOf(Surface[1]) # {}

\* -------------------------------------------------------- set operations
\* the longest other.keys() of an operand of a set operation
MaxOther == 2

\* the sequences of at most MaxOther different elements of S
DistinctSeqs(S) ==
    {q \in UNION {[1..n -> S] : n \in 0..MaxOther} :
        \A i, j \in DOMAIN q : i # j => q[i] # q[j]}

\* WeakRef.prototype.deref of a WeakRef of the container that created refs
DerefIn(refs, ref) == IF heap[refs[ref]] = "collected" THEN None ELSE refs[ref]

\* WeakMap.prototype.has: a value that is not an object is never a key
WeakMapHas(m, x) == CanBeHeldWeakly(x) /\ m[x] # None

\* new MeekSet(): a container of its own, with the WeakRefs it creates
NewSet ==
    [id |-> "new", fr |-> {}, vwv |-> EmptyWeakMap, wv |-> <<>>, refs |-> <<>>,
     thrown |-> FALSE]

\* this set: the private data of the instance and the WeakRefs it created
This ==
    [id |-> "this", fr |-> pri.fr, vwv |-> pri.vwv, wv |-> pri.wv, refs |-> weakrefs,
     thrown |-> FALSE]

\* the private data of container s
PriOf(s) == [fr |-> s.fr, vwv |-> s.vwv, wv |-> s.wv]

\* add() that does not look the value up first
MeekSet_addTo_noLookup(s, value) ==
    IF ~CanBeHeldWeakly(value) THEN [s EXCEPT !.thrown = TRUE]
    ELSE [s EXCEPT !.fr = Register(@, value, Len(s.refs) + 1, value),
                   !.vwv[value] = Len(s.refs) + 1,
                   !.wv = SeqAdd(@, Len(s.refs) + 1),
                   !.refs = Append(@, value)]

\* set.add(value) on container s; thrown tells that new WeakRef(value) threw
MeekSet_addTo(s, value) ==
    IF WeakMapHas(s.vwv, value) THEN s
    ELSE IF ~CanBeHeldWeakly(value) THEN [s EXCEPT !.thrown = TRUE]
    ELSE [s EXCEPT !.fr = Register(@, value, Len(s.refs) + 1, value),
                   !.vwv[value] = Len(s.refs) + 1,
                   !.wv = SeqAdd(@, Len(s.refs) + 1),
                   !.refs = Append(@, value)]

\* what keys() of container s yields: the referents that deref() still gives
RECURSIVE MeekSet_keys(_, _)
MeekSet_keys(wv, refs) ==
    IF wv = <<>> THEN <<>>
    ELSE (IF DerefIn(refs, Head(wv)) # None THEN <<DerefIn(refs, Head(wv))>> ELSE <<>>)
         \o MeekSet_keys(Tail(wv), refs)

\* container s as a ReadonlySetLike: the values has() is true for, and what
\* keys() yields
SetLike(s) ==
    [has |-> {x \in Objs : WeakMapHas(s.vwv, x)}, keys |-> MeekSet_keys(s.wv, s.refs)]

\* a native Set of the items as a ReadonlySetLike
SetOf(items) == [has |-> Range(items), keys |-> items]

\* another MeekSet, constructed from the items when they were reachable; the
\* host has dropped the index entries of the items collected since
MeekSetOf(items) ==
    LET st == MeekSet_constructor(items)
    IN  [id |-> "other", fr |-> st.fr,
         vwv |-> [o \in Objs |-> IF heap[o] = "collected" THEN None ELSE st.vwv[o]],
         wv |-> st.wv, refs |-> st.refs, thrown |-> FALSE]

\* the items a MeekSet operand can be constructed from
ObjectSeqs == DistinctSeqs(Objs)

\* the members a native Set operand can have, in insertion order
KeySeqs == DistinctSeqs(Objs \cup {Primitive})

\* the operands a set operation is called with: this set itself, another
\* MeekSet, or a native Set, which keeps its members reachable and can hold
\* a primitive
Operands ==
    {[kind |-> "this", items |-> <<>>]}
    \cup {[kind |-> "MeekSet", items |-> q] : q \in ObjectSeqs \ {<<>>}}
    \cup {[kind |-> "Set", items |-> q] :
            q \in {k \in KeySeqs :
                     \A i \in DOMAIN k : CanBeHeldWeakly(k[i]) => heap[k[i]] = "held"}}

\* the operand as the set operation sees it
AsSetLike(other) ==
    CASE other.kind = "this" -> SetLike(This)
      [] other.kind = "MeekSet" -> SetLike(MeekSetOf(other.items))
      [] OTHER -> SetOf(other.items)

\* difference(other): the loop over wv, adding to the new set
RECURSIVE MeekSet_differenceLoop(_, _, _, _)
MeekSet_differenceLoop(set, todo, refs, other) ==
    IF todo = <<>> \/ set.thrown THEN set
    ELSE LET value == DerefIn(refs, Head(todo))
         IN  MeekSet_differenceLoop(
                IF value # None /\ value \notin other.has
                THEN MeekSet_addTo(set, value) ELSE set,
                Tail(todo), refs, other)

\* difference() that first copies other into a MeekSet: new MeekSet(other)
\* throws when other holds a value that cannot be held weakly
MeekSet_difference_copiesOther(s, other) ==
    [this |-> s,
     out |-> [MeekSet_differenceLoop(NewSet, s.wv, s.refs, other) EXCEPT
                !.thrown = \E i \in DOMAIN other.keys : ~CanBeHeldWeakly(other.keys[i])]]

\* difference(other) on container s: s after the call and what is returned
MeekSet_difference(s, other) ==
    [this |-> s, out |-> MeekSet_differenceLoop(NewSet, s.wv, s.refs, other)]

\* a loop that ends after the first entry of wv
MeekSet_intersectionLoop_firstOnly(set, todo, refs, other) ==
    IF todo = <<>> THEN set
    ELSE IF DerefIn(refs, Head(todo)) # None /\ DerefIn(refs, Head(todo)) \in other.has
         THEN MeekSet_addTo(set, DerefIn(refs, Head(todo))) ELSE set

\* intersection(other): the loop over wv
RECURSIVE MeekSet_intersectionLoop(_, _, _, _)
MeekSet_intersectionLoop(set, todo, refs, other) ==
    IF todo = <<>> \/ set.thrown THEN set
    ELSE LET value == DerefIn(refs, Head(todo))
         IN  MeekSet_intersectionLoop(
                IF value # None /\ value \in other.has
                THEN MeekSet_addTo(set, value) ELSE set,
                Tail(todo), refs, other)

\* intersection() that keeps the values other does not have
MeekSet_intersection_swapped(s, other) == MeekSet_difference(s, other)

MeekSet_intersection(s, other) ==
    [this |-> s, out |-> MeekSet_intersectionLoop(NewSet, s.wv, s.refs, other)]

\* isDisjointFrom() that looks at the first entry of wv only
MeekSet_isDisjointFrom_firstOnly(s, other) ==
    [this |-> s,
     out |-> ~(/\ s.wv # <<>>
               /\ DerefIn(s.refs, s.wv[1]) # None
               /\ DerefIn(s.refs, s.wv[1]) \in other.has)]

\* isDisjointFrom(other): false at the first live value that other has
MeekSet_isDisjointFrom(s, other) ==
    [this |-> s,
     out |-> ~\E i \in DOMAIN s.wv :
                DerefIn(s.refs, s.wv[i]) # None /\ DerefIn(s.refs, s.wv[i]) \in other.has]

\* isSubsetOf() that does not skip the entries whose referent was reclaimed
MeekSet_isSubsetOf_countsDead(s, other) ==
    [this |-> s, out |-> ~\E i \in DOMAIN s.wv : s.refs[s.wv[i]] \notin other.has]

\* isSubsetOf(other): false at the first live value that other has not
MeekSet_isSubsetOf(s, other) ==
    [this |-> s,
     out |-> ~\E i \in DOMAIN s.wv :
                DerefIn(s.refs, s.wv[i]) # None /\ DerefIn(s.refs, s.wv[i]) \notin other.has]

\* isSupersetOf() that skips the keys of other that cannot be held weakly
MeekSet_isSupersetOf_skipsPrimitives(s, other) ==
    [this |-> s,
     out |-> ~\E i \in DOMAIN other.keys :
                CanBeHeldWeakly(other.keys[i]) /\ ~WeakMapHas(s.vwv, other.keys[i])]

\* isSupersetOf(other): false at the first key of other that vwv has not
MeekSet_isSupersetOf(s, other) ==
    [this |-> s,
     out |-> ~\E i \in DOMAIN other.keys : ~WeakMapHas(s.vwv, other.keys[i])]

\* a loop over the keys of other that adds every key
RECURSIVE MeekSet_symmetricDifferenceKeys_addsAll(_, _, _)
MeekSet_symmetricDifferenceKeys_addsAll(set, keys, vwv) ==
    IF keys = <<>> \/ set.thrown THEN set
    ELSE MeekSet_symmetricDifferenceKeys_addsAll(
            MeekSet_addTo(set, Head(keys)), Tail(keys), vwv)

\* symmetricDifference(other): the loop over the keys of other
RECURSIVE MeekSet_symmetricDifferenceKeys(_, _, _)
MeekSet_symmetricDifferenceKeys(set, keys, vwv) ==
    IF keys = <<>> \/ set.thrown THEN set
    ELSE MeekSet_symmetricDifferenceKeys(
            IF ~WeakMapHas(vwv, Head(keys)) THEN MeekSet_addTo(set, Head(keys)) ELSE set,
            Tail(keys), vwv)

\* symmetricDifference(other): the loop over wv
RECURSIVE MeekSet_symmetricDifferenceLoop(_, _, _, _)
MeekSet_symmetricDifferenceLoop(set, todo, refs, other) ==
    IF todo = <<>> \/ set.thrown THEN set
    ELSE LET value == DerefIn(refs, Head(todo))
         IN  MeekSet_symmetricDifferenceLoop(
                IF value # None /\ value \notin other.has
                THEN MeekSet_addTo(set, value) ELSE set,
                Tail(todo), refs, other)

MeekSet_symmetricDifference(s, other) ==
    [this |-> s,
     out |-> MeekSet_symmetricDifferenceKeys(
                MeekSet_symmetricDifferenceLoop(NewSet, s.wv, s.refs, other),
                other.keys, s.vwv)]

\* union(other): the loop over wv
RECURSIVE MeekSet_unionLoop(_, _, _)
MeekSet_unionLoop(set, todo, refs) ==
    IF todo = <<>> \/ set.thrown THEN set
    ELSE LET value == DerefIn(refs, Head(todo))
         IN  MeekSet_unionLoop(IF value # None THEN MeekSet_addTo(set, value) ELSE set,
                               Tail(todo), refs)

\* a loop over the keys of other that adds none
MeekSet_unionKeys_none(set, keys) == set

\* union(other): the loop over the keys of other
RECURSIVE MeekSet_unionKeys(_, _)
MeekSet_unionKeys(set, keys) ==
    IF keys = <<>> \/ set.thrown THEN set
    ELSE MeekSet_unionKeys(MeekSet_addTo(set, Head(keys)), Tail(keys))

\* union() that adds to this set and returns it
MeekSet_union_intoThis(s, other) ==
    [this |-> MeekSet_unionKeys(s, other.keys), out |-> MeekSet_unionKeys(s, other.keys)]

MeekSet_union(s, other) ==
    [this |-> s, out |-> MeekSet_unionKeys(MeekSet_unionLoop(NewSet, s.wv, s.refs), other.keys)]

\* ------------------------------------------------ caller: set operations
\* the set operations that return a new MeekSet, and those that return a boolean
Returning == {"difference", "intersection", "symmetricDifference", "union"}

Testing == {"isDisjointFrom", "isSubsetOf", "isSupersetOf"}

\* a call of a set operation of this set: r is this set after the call and
\* what the call returned
Called(op, r) ==
    /\ pri' = PriOf(r.this)
    /\ weakrefs' = r.this.refs
    /\ thrown' = (op \in Returning /\ r.out.thrown)
    /\ ret' = [op |-> op, out |-> r.out]
    /\ it' = IterAdjust(it, pri, pri')
    /\ UNCHANGED <<cls, heap, expect, clob, delivered, iterable, native>>

\* difference(other)
SetDifference(other) ==
    /\ cls = "MeekSet"
    /\ Called("difference", MeekSet_difference(This, AsSetLike(other)))

\* intersection(other)
SetIntersection(other) ==
    /\ cls = "MeekSet"
    /\ Called("intersection", MeekSet_intersection(This, AsSetLike(other)))

\* isDisjointFrom(other)
SetIsDisjointFrom(other) ==
    /\ cls = "MeekSet"
    /\ Called("isDisjointFrom", MeekSet_isDisjointFrom(This, AsSetLike(other)))

\* isSubsetOf(other)
SetIsSubsetOf(other) ==
    /\ cls = "MeekSet"
    /\ Called("isSubsetOf", MeekSet_isSubsetOf(This, AsSetLike(other)))

\* isSupersetOf(other)
SetIsSupersetOf(other) ==
    /\ cls = "MeekSet"
    /\ Called("isSupersetOf", MeekSet_isSupersetOf(This, AsSetLike(other)))

\* symmetricDifference(other)
SetSymmetricDifference(other) ==
    /\ cls = "MeekSet"
    /\ Called("symmetricDifference", MeekSet_symmetricDifference(This, AsSetLike(other)))

\* union(other)
SetUnion(other) ==
    /\ cls = "MeekSet"
    /\ Called("union", MeekSet_union(This, AsSetLike(other)))

\* the caller adds a value to the set a set operation has returned
ResultAdd(value) ==
    /\ ret.op \in Returning
    /\ ~ret.out.thrown
    /\ heap[value] = "held"
    /\ LET new == MeekSet_addTo(ret.out, value)
       IN  /\ ret' = [op |-> "changed", out |-> new]
           /\ pri' = IF new.id = "this" THEN PriOf(new) ELSE pri
           /\ weakrefs' = IF new.id = "this" THEN new.refs ELSE weakrefs
    /\ thrown' = FALSE
    /\ it' = IterAdjust(it, pri, pri')
    /\ UNCHANGED <<cls, heap, expect, clob, delivered, iterable, native>>

\* the caller deletes a value from the set a set operation has returned
ResultDelete(value) ==
    /\ ret.op \in Returning
    /\ ~ret.out.thrown
    /\ heap[value] = "held"
    /\ LET new == MeekSet_delete(ret.out, value)
       IN  /\ ret' = [op |-> "changed", out |-> new]
           /\ pri' = IF new.id = "this" THEN PriOf(new) ELSE pri
    /\ thrown' = FALSE
    /\ it' = IterAdjust(it, pri, pri')
    /\ UNCHANGED <<cls, heap, weakrefs, expect, clob, delivered, iterable, native>>

\* the caller clears the set a set operation has returned
ResultClear ==
    /\ ret.op \in Returning
    /\ ~ret.out.thrown
    /\ LET new == MeekSet_clear(ret.out)
       IN  /\ ret' = [op |-> "changed", out |-> new]
           /\ pri' = IF new.id = "this" THEN PriOf(new) ELSE pri
    /\ thrown' = FALSE
    /\ it' = IterAdjust(it, pri, pri')
    /\ UNCHANGED <<cls, heap, weakrefs, expect, clob, delivered, iterable, native>>

\* the caller lets go of what the set operation returned
Discard ==
    /\ ret # NoReturn
    /\ ret' = NoReturn
    /\ UNCHANGED <<cls, heap, weakrefs, pri, expect, clob, delivered, iterable, it, native,
                   thrown>>

AlgebraInit == Init /\ cls = "MeekSet"

\* the caller is done with what a set operation returned (changes it, or lets
\* go of it) before the next call or host step: every other step forgets it
\* anyway, so the same states are reached
AlgebraNext ==
    \/ ret = NoReturn /\ \E o \in Objs : Add(o)
    \/ ret = NoReturn /\ \E o \in Objs : SetDelete(o)
    \/ ret = NoReturn /\ SetClear
    \/ ret = NoReturn /\ \E o \in Objs : Drop(o)
    \/ ret = NoReturn /\ \E o \in Objs : Retain(o)
    \/ ret = NoReturn /\ \E o \in Objs : Collect(o)
    \/ ret = NoReturn /\ \E c \in pri.fr : Deliver(c)
    \/ ret = NoReturn /\ \E other \in Operands : SetIntersection(other)
    \/ ret = NoReturn /\ \E other \in Operands : SetUnion(other)
    \/ Discard

\* a MeekSet with the calls and the host steps, and a caller that also calls
\* intersection and union
AlgebraSpec == AlgebraInit /\ [][AlgebraNext]_vars

DifferenceNext ==
    \/ ret = NoReturn /\ \E o \in Objs : Add(o)
    \/ ret = NoReturn /\ \E o \in Objs : SetDelete(o)
    \/ ret = NoReturn /\ SetClear
    \/ ret = NoReturn /\ \E o \in Objs : Drop(o)
    \/ ret = NoReturn /\ \E o \in Objs : Retain(o)
    \/ ret = NoReturn /\ \E o \in Objs : Collect(o)
    \/ ret = NoReturn /\ \E c \in pri.fr : Deliver(c)
    \/ ret = NoReturn /\ \E other \in Operands : SetDifference(other)
    \/ ret = NoReturn /\ \E other \in Operands : SetSymmetricDifference(other)
    \/ Discard

\* a MeekSet with the calls and the host steps, and a caller that also calls
\* difference and symmetricDifference
DifferenceSpec == AlgebraInit /\ [][DifferenceNext]_vars

RelationNext ==
    \/ ret = NoReturn /\ \E o \in Objs : Add(o)
    \/ ret = NoReturn /\ \E o \in Objs : SetDelete(o)
    \/ ret = NoReturn /\ SetClear
    \/ ret = NoReturn /\ \E o \in Objs : Drop(o)
    \/ ret = NoReturn /\ \E o \in Objs : Retain(o)
    \/ ret = NoReturn /\ \E o \in Objs : Collect(o)
    \/ ret = NoReturn /\ \E c \in pri.fr : Deliver(c)
    \/ ret = NoReturn /\ \E other \in Operands : SetIsDisjointFrom(other)
    \/ ret = NoReturn /\ \E other \in Operands : SetIsSubsetOf(other)
    \/ ret = NoReturn /\ \E other \in Operands : SetIsSupersetOf(other)
    \/ Discard

\* a MeekSet with the calls and the host steps, and a caller that also calls
\* the set operations that return a boolean
RelationSpec == AlgebraInit /\ [][RelationNext]_vars

ResultNext ==
    \/ ret = NoReturn /\ \E o \in Objs : Add(o)
    \/ ret = NoReturn /\ \E o \in Objs : SetDelete(o)
    \/ ret = NoReturn /\ SetClear
    \/ ret = NoReturn /\ \E o \in Objs : Drop(o)
    \/ ret = NoReturn /\ \E o \in Objs : Retain(o)
    \/ ret = NoReturn /\ \E o \in Objs : Collect(o)
    \/ ret = NoReturn /\ \E c \in pri.fr : Deliver(c)
    \/ ret = NoReturn /\ \E other \in Operands : SetDifference(other)
    \/ ret = NoReturn /\ \E other \in Operands : SetIntersection(other)
    \/ ret = NoReturn /\ \E other \in Operands : SetSymmetricDifference(other)
    \/ ret = NoReturn /\ \E other \in Operands : SetUnion(other)
    \/ ret = NoReturn /\ \E other \in Operands : SetIsDisjointFrom(other)
    \/ ret = NoReturn /\ \E other \in Operands : SetIsSubsetOf(other)
    \/ ret = NoReturn /\ \E other \in Operands : SetIsSupersetOf(other)
    \/ \E o \in Objs : ResultAdd(o)
    \/ \E o \in Objs : ResultDelete(o)
    \/ ResultClear
    \/ Discard

\* a MeekSet with the calls and the host steps, and a caller that calls every
\* set operation and changes the sets they return
ResultSpec == AlgebraInit /\ [][ResultNext]_vars

\* ------------------------------------------------- set operations: results
\* what iterating container s yields, in order
Members(s) == MeekSet_keys(s.wv, s.refs)

\* the size of container s
SizeOf(s) == Len(s.wv)

\* the caller is about to make a call
AtCall == ret = NoReturn

\* the elements of sequence q that are in S, in the order of q
Filter(q, S) == SelectSeq(q, LAMBDA x : x \in S)

\* C21: the set operations of MeekSet (union, intersection, difference,
\* symmetricDifference, isSubsetOf, isSupersetOf, isDisjointFrom) change
\* neither operand: across the call this set keeps its index, surface, order,
\* size and registrations and creates no WeakRef (also when the operand is
\* this set itself), and the set returned is a container of its own, so that
\* add, delete and clear on it leave this set as it was.
C21_OperandsUntouched ==
    /\ [][ret'.op # "none" =>
            (/\ pri' = pri
             /\ weakrefs' = weakrefs
             /\ Size' = Size
             /\ Yielded' = Yielded)]_vars
    /\ [](ret.op \in Returning => ret.out.id = "new")

\* the caller has added to the returned set, which has a member of this set,
\* an object that this set does not have
C21_Witness ==
    /\ ret.op = "changed"
    /\ Size = 1
    /\ SizeOf(ret.out) = 2
    /\ \E o \in Objs : WeakMapHas(ret.out.vwv, o) /\ MeekSet_has(pri, o)
    /\ \E o \in Objs : WeakMapHas(ret.out.vwv, o) /\ ~MeekSet_has(pri, o)
    /\ \E o \in Objs : WeakMapHas(ret.out.vwv, o) /\ ~MeekSet_has(pri, o)

\* every entry of container s has its referent alive: none was reclaimed with
\* its callback still due
AllAlive(s) == \A i \in DOMAIN s.wv : DerefIn(s.refs, s.wv[i]) # None

\* the operands that are a MeekSet
MeekSets == {other \in Operands : other.kind # "Set"}

\* the MeekSet that operand other is
OperandSet(other) == IF other.kind = "this" THEN This ELSE MeekSetOf(other.items)

\* C22: for MeekSets A and B whose entries are all alive,
\* A.union(B).size = A.size + B.difference(A).size.
C22_UnionSize ==
    AtCall =>
        \A other \in MeekSets :
            (AllAlive(This) /\ AllAlive(OperandSet(other))) =>
                SizeOf(MeekSet_union(This, AsSetLike(other)).out)
                    = Size + SizeOf(MeekSet_difference(OperandSet(other), SetLike(This)).out)

\* union with a MeekSet of two has returned a set of two from this set of one,
\* and the difference of that MeekSet and this set has one member
C22_Witness ==
    /\ ret.op = "union"
    /\ Size = 1
    /\ AllAlive(This)
    /\ \E other \in MeekSets :
          /\ other.kind = "MeekSet"
          /\ Len(other.items) = 2
          /\ AllAlive(OperandSet(other))
          /\ ret.out = MeekSet_union(This, AsSetLike(other)).out
          /\ SizeOf(ret.out) = 2
          /\ SizeOf(MeekSet_difference(OperandSet(other), SetLike(This)).out) = 1

\* this set as the operand of its own set operation
Self == [kind |-> "this", items |-> <<>>]

\* C23: in every reachable state of a MeekSet A, also while A counts entries
\* whose referent was reclaimed, A.intersection(A) has exactly the live members
\* of A (the members added, not deleted, and not reclaimed), in the iteration
\* order of A, and its size is their number, not A.size.
C23_SelfIntersection ==
    AtCall =>
        LET set == MeekSet_intersection(This, AsSetLike(Self)).out IN
        /\ ~set.thrown
        /\ Members(set) = Yielded
        /\ Range(Members(set)) = LiveExpected
        /\ SizeOf(set) = Cardinality(LiveExpected)

\* a.intersection(a) has returned a set of one while a counts two entries, one
\* of them reclaimed
C23_Witness ==
    /\ ret.op = "intersection"
    /\ Size = 2
    /\ NumYielded = 1
    /\ ret.out = MeekSet_intersection(This, AsSetLike(Self)).out
    /\ SizeOf(ret.out) = 1

\* every key of set-like other is an object
ObjectKeys(other) == \A i \in DOMAIN other.keys : CanBeHeldWeakly(other.keys[i])

\* C24: union(other) with an operand whose keys are objects returns a set that
\* yields the live members of this set in the order this set yields them,
\* followed by the keys of other.keys() that are not among them, in the order
\* of other, each once; its size is the number of different objects among the
\* live members of this set and the keys of other.
C24_Union ==
    AtCall =>
        LET mine == Yielded IN
        \A other \in Operands :
            LET o == AsSetLike(other)
                set == MeekSet_union(This, o).out
            IN  ObjectKeys(o) =>
                    /\ ~set.thrown
                    /\ Members(set) = mine \o Filter(o.keys, Range(o.keys) \ Range(mine))
                    /\ SizeOf(set) = Cardinality(Range(mine) \cup Range(o.keys))

\* union of this set of one member with a native Set of another object and
\* that member has returned the member followed by the other object
C24_Witness ==
    /\ ret.op = "union"
    /\ Size = 1
    /\ NumYielded = 1
    /\ \E other \in Operands :
          /\ other.kind = "Set"
          /\ Len(other.items) = 2
          /\ other.items[2] = Yielded[1]
          /\ ret.out = MeekSet_union(This, AsSetLike(other)).out
          /\ Members(ret.out) = <<Yielded[1], other.items[1]>>

\* the operands that are a native Set
NativeSets == {other \in Operands : other.kind = "Set"}

\* C25: intersection(other) returns exactly the live members of this set for
\* which other.has is true, in the order this set yields them, for other this
\* set, another MeekSet or a native Set; a.intersection(b).intersection(c) with
\* a MeekSet b and a native Set c has the live members of a that b and c both
\* have.
C25_Intersection ==
    AtCall =>
        LET mine == Yielded
            natives == NativeSets
        IN
        \A other \in Operands :
            LET b == AsSetLike(other)
                set == MeekSet_intersection(This, b).out
            IN  /\ ~set.thrown
                /\ Members(set) = Filter(mine, b.has)
                /\ SizeOf(set) = Len(Members(set))
                /\ other.kind # "Set" =>
                      \A c \in natives :
                          Members(MeekSet_intersection(set, AsSetLike(c)).out)
                              = Filter(mine, b.has \cap Range(c.items))

\* intersection with a MeekSet that has the two members of this set in the
\* other order has returned them in the order of this set
C25_Witness ==
    /\ ret.op = "intersection"
    /\ NumYielded = 2
    /\ \E other \in MeekSets :
          /\ other.kind = "MeekSet"
          /\ other.items = <<Yielded[2], Yielded[1]>>
          /\ ret.out = MeekSet_intersection(This, AsSetLike(other)).out
          /\ Members(ret.out) = Yielded

\* C26: difference(other) returns exactly the live members of this set for
\* which other.has is false, in the order this set yields them; an operand
\* that holds values that cannot be held weakly causes no error.
C26_Difference ==
    AtCall =>
        \A other \in Operands :
            LET o == AsSetLike(other)
                set == MeekSet_difference(This, o).out
            IN  /\ ~set.thrown
                /\ Members(set) = Filter(Yielded, Objs \ o.has)
                /\ SizeOf(set) = Len(Members(set))

\* difference with a native Set of a primitive and one of the two members of
\* this set has returned the other member, without an error
C26_Witness ==
    /\ ret.op = "difference"
    /\ ~thrown
    /\ NumYielded = 2
    /\ \E other \in NativeSets :
          /\ other.items = <<Primitive, Yielded[1]>>
          /\ ret.out = MeekSet_difference(This, AsSetLike(other)).out
          /\ Members(ret.out) = <<Yielded[2]>>

\* C27: symmetricDifference(other) with an operand whose keys are objects
\* returns exactly the objects that are a live member of this set or a key of
\* other, but not both; for a MeekSet b and a native Set c of objects, all
\* entries alive, a.symmetricDifference(b).symmetricDifference(c) has exactly
\* the objects that are in an odd number of a, b and c.
C27_SymmetricDifference ==
    AtCall =>
        LET mine == Range(Yielded)
            natives == NativeSets
        IN
        \A other \in Operands :
            LET b == AsSetLike(other)
                theirs == Range(b.keys)
                set == MeekSet_symmetricDifference(This, b).out
            IN  ObjectKeys(b) =>
                  /\ ~set.thrown
                  /\ Range(Members(set)) = (mine \ theirs) \cup (theirs \ mine)
                  /\ SizeOf(set) = Cardinality(Range(Members(set)))
                  /\ (other.kind # "Set" /\ AllAlive(This) /\ AllAlive(OperandSet(other))) =>
                        \A c \in natives :
                            ObjectKeys(AsSetLike(c)) =>
                                Range(Members(MeekSet_symmetricDifference(set, AsSetLike(c)).out))
                                    = {x \in Objs :
                                          (x \in mine) # ((x \in theirs) # (x \in Range(c.items)))}

\* symmetricDifference of this set of one member with a MeekSet of another
\* object and that member has returned the other object alone
C27_Witness ==
    /\ ret.op = "symmetricDifference"
    /\ NumYielded = 1
    /\ \E other \in MeekSets :
          /\ other.kind = "MeekSet"
          /\ Len(other.items) = 2
          /\ other.items[2] = Yielded[1]
          /\ ret.out = MeekSet_symmetricDifference(This, AsSetLike(other)).out
          /\ Members(ret.out) = <<other.items[1]>>

\* container s once the callbacks of its reclaimed entries are delivered: each
\* takes its token off wv
AfterCallbacks(s) ==
    [s EXCEPT !.wv = SelectSeq(@, LAMBDA r : DerefIn(s.refs, r) # None)]

\* C28: isSubsetOf(other) is true exactly when other.has is true for every
\* live member of this set (a member added, not deleted, not reclaimed). An
\* entry whose referent was reclaimed is ignored, so the result is the same
\* before and after its callback is delivered; a set is a subset of itself.
C28_IsSubsetOf ==
    AtCall =>
        LET live == LiveExpected IN
        /\ \A other \in Operands :
              LET o == AsSetLike(other)
                  is == MeekSet_isSubsetOf(This, o).out
              IN  /\ is = (\A x \in live : x \in o.has)
                  /\ is = MeekSet_isSubsetOf(AfterCallbacks(This), o).out
        /\ MeekSet_isSubsetOf(This, AsSetLike(Self)).out

\* isSubsetOf a native Set of the one live member has returned true while this
\* set counts a second entry, reclaimed, that the Set does not have
C28_Witness ==
    /\ ret.op = "isSubsetOf"
    /\ ret.out = TRUE
    /\ Size = 2
    /\ NumYielded = 1
    /\ \E c \in pri.fr : Pending(c) /\ Current(c)
    /\ \E other \in NativeSets :
          /\ other.items = <<Yielded[1]>>
          /\ MeekSet_isSubsetOf(This, AsSetLike(other)).out

\* C29: isSupersetOf(other) is true exactly when every key of other.keys() is
\* a live member of this set; a key that cannot be held weakly makes it false;
\* for MeekSets A and B whose entries are all alive, A.isSupersetOf(B) is
\* B.isSubsetOf(A).
C29_IsSupersetOf ==
    AtCall =>
        LET live == LiveExpected IN
        \A other \in Operands :
            LET o == AsSetLike(other)
                is == MeekSet_isSupersetOf(This, o).out
            IN  /\ is = (\A i \in DOMAIN o.keys : o.keys[i] \in live)
                /\ ~ObjectKeys(o) => ~is
                /\ (other.kind # "Set" /\ AllAlive(This) /\ AllAlive(OperandSet(other))) =>
                      is = MeekSet_isSubsetOf(OperandSet(other), SetLike(This)).out

\* isSupersetOf a native Set of a member of this set and a primitive has
\* returned false
C29_Witness ==
    /\ ret.op = "isSupersetOf"
    /\ ret.out = FALSE
    /\ ~thrown
    /\ NumYielded = 2
    /\ \E other \in NativeSets :
          /\ other.items = <<Yielded[1], Primitive>>
          /\ ~MeekSet_isSupersetOf(This, AsSetLike(other)).out

\* C30: isDisjointFrom(other) is true exactly when this.intersection(other) is
\* empty, that is when other.has is false for every live member of this set; a
\* set with a live member is not disjoint from itself.
C30_IsDisjointFrom ==
    AtCall =>
        /\ \A other \in Operands :
              LET o == AsSetLike(other)
                  is == MeekSet_isDisjointFrom(This, o).out
              IN  /\ is = (SizeOf(MeekSet_intersection(This, o).out) = 0)
                  /\ is = (\A x \in LiveExpected : x \notin o.has)
        /\ LiveExpected # {} => ~MeekSet_isDisjointFrom(This, AsSetLike(Self)).out

\* isDisjointFrom a MeekSet of the second member of this set has returned
\* false
C30_Witness ==
    /\ ret.op = "isDisjointFrom"
    /\ ret.out = FALSE
    /\ NumYielded = 2
    /\ \E other \in MeekSets :
          /\ other.items = <<Yielded[2]>>
          /\ ~MeekSet_isDisjointFrom(This, AsSetLike(other)).out

\* ------------------------------------------- set operations: calls on other
\* the calls intersection(other) makes on its operand, in order: other.has for
\* every live value of wv, and nothing else
MeekSet_intersectionCalls(s, other) ==
    LET mine == MeekSet_keys(s.wv, s.refs)
    IN  [i \in DOMAIN mine |-> <<"has", mine[i]>>]

\* the calls isDisjointFrom(other) makes on its operand, in order: other.has
\* for the live values of wv up to the first one other has
MeekSet_isDisjointFromCalls(s, other) ==
    LET mine == MeekSet_keys(s.wv, s.refs)
        hits == {i \in DOMAIN mine : mine[i] \in other.has}
        last == IF hits = {} THEN Len(mine)
                ELSE CHOOSE i \in hits : \A j \in hits : i <= j
    IN  [i \in 1..last |-> <<"has", mine[i]>>]

\* the size operand other reports
ReportedSize(other) ==
    CASE other.kind = "this" -> Len(pri.wv)
      [] other.kind = "MeekSet" -> Len(MeekSetOf(other.items).wv)
      [] OTHER -> Len(other.items)

\* C31: when the operand reports a size smaller than the size of this set,
\* intersection and isDisjointFrom enumerate the operand through keys()
\* instead of enumerating this set and probing other.has.
C31_SmallerOperandEnumerated ==
    AtCall =>
        \A other \in Operands :
            ReportedSize(other) < Size =>
                LET o == AsSetLike(other)
                    a == MeekSet_intersectionCalls(This, o)
                    b == MeekSet_isDisjointFromCalls(This, o)
                IN  /\ \E i \in DOMAIN a : a[i][1] = "keys"
                    /\ \E i \in DOMAIN b : b[i][1] = "keys"

\* ------------------------------------------- index and enumeration surface
\* the token the index of a MeekSet or MeekMap maps object v to
IndexOf(v) == IF cls = "MeekSet" THEN pri.vwv[v] ELSE pri.kwk[v]

\* C32: in MeekSet and MeekMap, after every operation and every callback
\* delivery, for every live object v: the index maps v to a token exactly when
\* a token of v is on the enumeration surface, and that token is the one the
\* index holds; in MeekMap the key-to-value map has v exactly when the index
\* has v; and has(v) is true exactly when a full iteration yields v.
C32_IndexMatchesSurface ==
    cls \in {"MeekSet", "MeekMap"} =>
        \A v \in Objs :
            heap[v] # "collected" =>
                /\ IndexOf(v) # None =>
                      (OnSurface(IndexOf(v)) /\ weakrefs[IndexOf(v)] = v)
                /\ \A i \in DOMAIN Surface :
                      weakrefs[Surface[i]] = v => IndexOf(v) = Surface[i]
                /\ cls = "MeekMap" => ((pri.kv[v] # None) <=> (pri.kwk[v] # None))
                /\ Has(v) <=> SeqHas(YieldedKeys, v)

\* a MeekMap key that was deleted and set again: its old token is off the
\* surface, the index holds the new one, which is on the surface
C32_Witness ==
    /\ cls = "MeekMap"
    /\ \E v \in Objs, r1, r2 \in DOMAIN weakrefs :
          /\ heap[v] # "collected"
          /\ r1 # r2
          /\ weakrefs[r1] = v
          /\ weakrefs[r2] = v
          /\ ~OnSurface(r1)
          /\ IndexOf(v) = r2
          /\ OnSurface(r2)
          /\ Has(v)
          /\ pri.kv[v] # None

\* ------------------------------------------------------ one entry per key
\* the key of the entry at position i of the enumeration surface: the
\* referent of its token, or the key of a MeekValueMap
SurfaceKey(i) ==
    IF cls = "MeekValueMap" THEN pri.kwv[i].key ELSE weakrefs[Surface[i]]

\* C33: after any sequence of add/set, delete, clear and callback deliveries
\* the enumeration surface holds at most one token per referent (MeekSet,
\* MeekMap) or per key (MeekValueMap), a full iteration yields no member or
\* key twice, and an insertion under a key that has an entry leaves size
\* as it was.
C33_OneEntryPerKey ==
    /\ [](\A i, j \in DOMAIN Surface :
             (i # j) => (Surface[i] # Surface[j] /\ SurfaceKey(i) # SurfaceKey(j)))
    /\ [](\A i, j \in DOMAIN YieldedKeys : (i # j) => (YieldedKeys[i] # YieldedKeys[j]))
    /\ [][\A x \in Dom : (Insert(x) /\ InIndex(x)) => (Size' = Size)]_vars

\* a MeekSet of two members, one of them added again after a clear: three
\* tokens were created, two are on the surface, and both members are yielded
C33_Witness ==
    /\ cls = "MeekSet"
    /\ Len(weakrefs) = 3
    /\ Size = 2
    /\ NumYielded = 2
    /\ \E r1, r2 \in DOMAIN weakrefs :
          r1 # r2 /\ weakrefs[r1] = weakrefs[r2] /\ ~OnSurface(r1) /\ OnSurface(r2)

\* ------------------------------------------------ frame of a delivery
\* C34: the delivery of one reclamation callback removes at most the entry
\* it was registered for and changes nothing else: size decreases by at most
\* one, the other entries keep their token, their value and their relative
\* position, and no registration other than the delivered one is detached.
C34_DeliveryFrame ==
    [][\A c \in pri.fr :
          Deliver(c) =>
              /\ Size' \in {Size - 1, Size}
              /\ Surface' = SeqDelete(Surface, CellRef(c))
              /\ pri'.fr = pri.fr \ {c}
              /\ (cls = "MeekSet") => (pri'.vwv = pri.vwv)
              /\ (cls = "MeekMap") => (pri'.kwk = pri.kwk /\ pri'.kv = pri.kv)
              /\ (cls = "MeekValueMap") =>
                    (pri'.kwv = SelectSeq(pri.kwv, LAMBDA e : e.ref # CellRef(c)))
              /\ weakrefs' = weakrefs]_vars

\* a callback of a MeekSet has been delivered and the other member is still
\* there: one entry on the surface, alive, and the delivered token off it
C34_Witness ==
    /\ cls = "MeekSet"
    /\ Size = 1
    /\ NumYielded = 1
    /\ \E r \in delivered : ~OnSurface(r)

\* -------------------------------------------- one value under two keys
\* MeekValueMap keys k1 and k2 are different and hold the same value object
SameValue(k1, k2) ==
    /\ k1 # k2
    /\ KwvGet(pri.kwv, k1) # None
    /\ KwvGet(pri.kwv, k2) # None
    /\ weakrefs[KwvGet(pri.kwv, k1)] = weakrefs[KwvGet(pri.kwv, k2)]

\* C35: in MeekValueMap, when keys k1 and k2 hold the same value object V,
\* delete(k1) or set(k1, ...) detaches only the registration of k1: the entry
\* of k2 keeps its token and its registration, get(k2) is V while V is alive,
\* and the callback of that registration removes the entry of k2.
C35_SharedValueOtherKeyKept ==
    [][\A k1, k2 \in Keys :
          (/\ cls = "MeekValueMap"
           /\ SameValue(k1, k2)
           /\ ValueMapDelete(k1) \/ \E o \in Objs : ValueMapSet(k1, o)) =>
              LET ref == KwvGet(pri.kwv, k2)
                  V == weakrefs[ref]
                  mine == {c \in pri'.fr : c.token = ref}
              IN  /\ KwvGet(pri'.kwv, k2) = ref
                  /\ mine = {[target |-> V, held |-> k2, token |-> ref]}
                  /\ {c \in pri'.fr : c.token = KwvGet(pri.kwv, k1)} = {}
                  /\ heap[V] # "collected" => MeekValueMap_get(pri', k2) = V
                  /\ \A c \in mine :
                        KwvGet(MeekValueMap_cleanup(pri', c.held).kwv, k2) = None]_vars

\* the first key was set to the value the second key holds and then
\* overwritten with another object: the second key still has its token and
\* get of it returns the shared value
C35_Witness ==
    /\ cls = "MeekValueMap"
    /\ Len(pri.kwv) = 2
    /\ Len(weakrefs) = 3
    /\ pri.kwv[1].ref = 3
    /\ pri.kwv[2].ref = 2
    /\ weakrefs[1] = weakrefs[2]
    /\ weakrefs[3] # weakrefs[2]
    /\ Get(pri.kwv[2].key) = weakrefs[2]

\* ------------------------------------------------ delete and the read path
\* C36 as stated: in every class and every reachable state, also when an
\* entry was reclaimed and its callback is not delivered, a delete(key) called
\* while has(key) is false returns false and leaves size unchanged.
C36_DeleteAgreesWithHas ==
    [][\A x \in Dom :
          (Delete(x) /\ ~Has(x)) => (~DeleteResult(x) /\ Size' = Size)]_vars

\* C36 as amended: a delete(key) called while has(key) is false returns false
\* and changes nothing, except in MeekValueMap when the key has an entry whose
\* value was reclaimed and whose callback is not delivered: has(key) is false
\* there, and delete(key) returns true, removes the entry and lowers size by
\* one.
C36_DeleteAgreesWithIndex ==
    [][\A x \in Dom :
          (Delete(x) /\ ~Has(x)) =>
              IF cls = "MeekValueMap" /\ InIndex(x)
              THEN /\ Deref(KwvGet(pri.kwv, x)) = None
                   /\ DeleteResult(x)
                   /\ Size' = Size - 1
                   /\ ~InIndex(x)'
              ELSE /\ ~DeleteResult(x)
                   /\ Size' = Size
                   /\ pri' = pri]_vars

\* the second value set in a MeekValueMap was reclaimed and its entry is gone
\* by a delete: the first entry is still there, so no clear removed it, no
\* later set replaced it, and its callback was not delivered
C36_Witness ==
    /\ cls = "MeekValueMap"
    /\ Len(weakrefs) = 2
    /\ Surface = <<1>>
    /\ heap[weakrefs[2]] = "collected"
    /\ 2 \notin delivered
    /\ \A c \in pri.fr : c.token # 2

\* ------------------------------------- a key that is its own value
\* the object a key of a MeekValueMap is, None for a primitive key: the last
\* key is the last object, which the caller keeps
KeyObject(k) == IF k = NumKeys THEN NumObjs ELSE None

\* FinalizationRegistry.prototype.register throws a TypeError when the target
\* and the held value are the same object
RegisterThrows(target, held) == KeyObject(held) = target

\* set(key, value) of MeekValueMap with an object value, statement by
\* statement: new WeakRef(value); unregister of the token of the key, if any;
\* register(value, key, ref), which can throw; kwv.set(key, ref)
MeekValueMap_setSteps(p, key, value) ==
    LET old == KwvGet(p.kwv, key)
        fr1 == IF old # None THEN Unregister(p.fr, old) ELSE p.fr
    IN  IF RegisterThrows(value, key)
        THEN [pri |-> [p EXCEPT !.fr = fr1], thrown |-> TRUE]
        ELSE [pri |-> [p EXCEPT !.fr = Register(fr1, value, key, NewWeakRef),
                                !.kwv = KwvSet(@, key, NewWeakRef)],
              thrown |-> FALSE]

\* set(key, key): the key is an object and is passed as the value too
ValueMapSetSelf(key) ==
    /\ cls = "MeekValueMap"
    /\ KeyObject(key) # None
    /\ heap[KeyObject(key)] = "held"
    /\ pri' = MeekValueMap_setSteps(pri, key, KeyObject(key)).pri
    /\ thrown' = MeekValueMap_setSteps(pri, key, KeyObject(key)).thrown
    /\ it' = IterAdjust(it, pri, pri')
    /\ ret' = NoReturn
    /\ UNCHANGED <<cls, heap, weakrefs, expect, clob, delivered, iterable, native>>

SelfInit == Init /\ cls = "MeekValueMap"

SelfNext ==
    \/ \E k \in Keys, o \in Objs : ~RegisterThrows(o, k) /\ ValueMapSet(k, o)
    \/ \E k \in Keys : ValueMapSetSelf(k)
    \/ \E k \in Keys : ValueMapDelete(k)
    \/ ValueMapClear
    \/ \E o \in Objs : (\A k \in Keys : KeyObject(k) # o) /\ Drop(o)
    \/ \E o \in Objs : Retain(o)
    \/ \E o \in Objs : Collect(o)
    \/ \E c \in pri.fr : Deliver(c)

\* a MeekValueMap whose last key is an object, with the calls and the host
\* steps, and a caller that also passes that key as its own value
SelfSpec == SelfInit /\ [][SelfNext]_vars

\* C37: a set(key, value) of MeekValueMap that fails leaves the map as it
\* was: when the key has an entry and the registry rejects the registration
\* because value and key are the same object, the entry of the key is still
\* there and its registration is still attached.
C37_FailedSetChangesNothing ==
    [][\A k \in Keys :
          (ValueMapSetSelf(k) /\ thrown') =>
              /\ pri' = pri
              /\ KwvGet(pri.kwv, k) # None =>
                    /\ KwvGet(pri'.kwv, k) = KwvGet(pri.kwv, k)
                    /\ \E c \in pri'.fr : c.token = KwvGet(pri.kwv, k)]_vars

\* ------------------------- the MeekValueMap that deletes on a failed read
\* get(key) and has(key) that delete the key and forget to unregister
LazyValueMap_afterRead_keepsReg(p, key) ==
    IF KwvGet(p.kwv, key) # None /\ Deref(KwvGet(p.kwv, key)) = None
    THEN [p EXCEPT !.kwv = KwvDelete(@, key)]
    ELSE p

\* the private data after get(key) or has(key) of the variant: when the token
\* of the key is dead, unregister(ref) and map.delete(key)
LazyValueMap_afterRead(p, key) ==
    IF KwvGet(p.kwv, key) # None /\ Deref(KwvGet(p.kwv, key)) = None
    THEN [p EXCEPT !.fr = Unregister(@, KwvGet(p.kwv, key)), !.kwv = KwvDelete(@, key)]
    ELSE p

\* what get(key) of the variant returns
LazyValueMap_get(p, key) ==
    IF KwvGet(p.kwv, key) = None THEN None ELSE Deref(KwvGet(p.kwv, key))

\* what has(key) of the variant returns
LazyValueMap_has(p, key) ==
    IF KwvGet(p.kwv, key) = None THEN FALSE ELSE Deref(KwvGet(p.kwv, key)) # None

\* a read of the variant is called: the caller has what it returned and the
\* size it read before the call
LazyRead(op, key, out) ==
    /\ cls = "MeekValueMap"
    /\ pri' = LazyValueMap_afterRead(pri, key)
    /\ ret' = [op |-> op, out |-> out, size |-> Size]
    /\ it' = IterAdjust(it, pri, pri')
    /\ thrown' = FALSE
    /\ UNCHANGED <<cls, heap, weakrefs, expect, clob, delivered, iterable, native>>

LazyGet(key) == LazyRead("get", key, LazyValueMap_get(pri, key))

LazyHas(key) == LazyRead("has", key, LazyValueMap_has(pri, key))

LazyInit == Init /\ cls = "MeekValueMap"

LazyNext ==
    \/ ret = NoReturn /\ \E k \in Keys, o \in Objs : ValueMapSet(k, o)
    \/ ret = NoReturn /\ \E k \in Keys : ValueMapDelete(k)
    \/ ret = NoReturn /\ ValueMapClear
    \/ ret = NoReturn /\ \E o \in Objs : Drop(o)
    \/ ret = NoReturn /\ \E o \in Objs : Retain(o)
    \/ ret = NoReturn /\ \E o \in Objs : Collect(o)
    \/ ret = NoReturn /\ \E c \in pri.fr : Deliver(c)
    \/ ret = NoReturn /\ \E k \in Keys : LazyGet(k)
    \/ ret = NoReturn /\ \E k \in Keys : LazyHas(k)
    \/ Discard

\* the MeekValueMap that deletes on a failed read, with the calls and the
\* host steps
LazySpec == LazyInit /\ [][LazyNext]_vars

\* the token of key k is in the index and its value was reclaimed
DeadEntry(k) == KwvGet(pri.kwv, k) # None /\ Deref(KwvGet(pri.kwv, k)) = None

\* C38: in the MeekValueMap that deletes on a failed read, a get(key) or
\* has(key) that finds the value of the entry reclaimed removes the entry from
\* the index and detaches its registration, and reports absent: size is one
\* lower; and a value set under a key afterwards stays, while it is reachable,
\* whatever is reclaimed and delivered.
C38_LazyDeleteOnRead ==
    /\ [][\A k \in Keys :
            ((LazyGet(k) \/ LazyHas(k)) /\ DeadEntry(k)) =>
                /\ KwvGet(pri'.kwv, k) = None
                /\ Size' = Size - 1
                /\ \A c \in pri'.fr : c.token # KwvGet(pri.kwv, k)
                /\ (ret'.op = "get") => (ret'.out = None)
                /\ (ret'.op = "has") => (ret'.out = FALSE)]_vars
    /\ [](\A k \in Keys :
            (expect[k] # None /\ heap[expect[k]] = "held") =>
                LazyValueMap_get(pri, k) = expect[k])

\* a get has returned undefined and size is one lower than before the call,
\* while another entry is still there
C38_Witness ==
    /\ cls = "MeekValueMap"
    /\ ret.op = "get"
    /\ ret.out = None
    /\ ret.size = Size + 1
    /\ Size = 1

====
